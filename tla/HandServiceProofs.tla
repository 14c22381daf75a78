-------------------------- MODULE HandServiceProofs ---------------------------
(* Theorems about the requests on one hand, for any number of clients, any *)
(* requests, a store that may fail and a process that may die at any step. *)
EXTENDS MCHandService, EngineProofs, SequenceTheorems, FiniteSetTheorems

-----------------------------------------------------------------------------
(* The inductive invariant.                                                *)

(* The accepted actions that have a row or were refused one.               *)
Settled == Ids \cup lost

(* The local variables of a request until its snapshot is taken.           *)
Locals == [type : ActionTypes \cup {"none"}, amount : 0 .. MaxAmount,
           seat : Seats \cup {None}, id : Nat, order : Nat]
Snapshot == [order : Nat, hand : Hand, upto : Nat]

Pending == {"select_order", "insert_action"}
Storing == {"snapshot", "select_snapshot", "insert_snapshot"}

(* No row is further on than the rows before it leave room for.            *)
Placed(rows) == \A i \in DOMAIN rows : rows[i].order < i

ServiceState ==
    /\ IInv
    /\ deck \in Rankings /\ alive \in BOOLEAN /\ stored \in BOOLEAN
    /\ pc \in [Clients -> Labels]
    /\ req = [c \in Clients |-> req[c]]
    /\ log \in Seq(Locals) /\ Placed(log)
    /\ snaps \in Seq(Snapshot) /\ Placed(snaps)
    /\ applied \in Seq(Action)

(* Before the hand is stored only the client that starts it does anything; *)
(* after a crash nobody does.                                              *)
Stages ==
    /\ ~alive => \A c \in Clients : pc[c] = "idle"
    /\ ~stored => /\ log = <<>> /\ snaps = <<>> /\ applied = <<>> /\ acked = {} /\ lost = {}
                  /\ \A c \in Clients : pc[c] \in {"idle", "create_hand"}
    /\ \A c \in Clients :
          pc[c] = "create_hand" => ~stored /\ \A d \in Clients \ {c} : pc[d] = "idle"

(* A request's variables are as far as its program counter says.           *)
RequestOK(c) ==
    /\ pc[c] \notin {"select_snapshot", "insert_snapshot"} => req[c] \in Locals
    /\ pc[c] = "insert_action" => req[c].order <= Len(log)
    /\ pc[c] \in {"select_snapshot", "insert_snapshot"} =>
          req[c].hand \in Hand /\ req[c].upto \in Nat
    /\ pc[c] = "insert_snapshot" => req[c].order \in 0 .. Len(snaps)
    /\ pc[c] \in Pending => req[c].id \in DOMAIN applied \ Settled
    /\ pc[c] \in Storing => req[c].id \in Ids

(* What was accepted and neither logged nor refused is held by one request *)
(* each.                                                                   *)
Books ==
    /\ \A i, j \in DOMAIN log : log[i].id = log[j].id => i = j
    /\ Ids \subseteq DOMAIN applied /\ lost \subseteq DOMAIN applied /\ Ids \cap lost = {}
    /\ \A c, d \in Clients :
          pc[c] \in Pending /\ pc[d] \in Pending /\ req[c].id = req[d].id => c = d
    /\ alive => \A n \in DOMAIN applied \ Settled :
                    \E c \in Clients : pc[c] \in Pending /\ req[c].id = n
    /\ acked \subseteq Ids

ServiceInv == ServiceState /\ Stages /\ (\A c \in Clients : RequestOK(c)) /\ Books

-----------------------------------------------------------------------------
(* One request at a time.                                                  *)

(* Rows have the places 0, 1, 2, ... in the order they were stored.        *)
Numbered(rows) == \A i \in DOMAIN rows : rows[i].order = i - 1

(* How many actions the log is behind the engine, if it was refused none.  *)
Behind(n) == lost = {} => Len(log) = Len(applied) - n

(* The row a request will store.                                           *)
Called(c) == [type |-> req[c].type, amount |-> req[c].amount, seat |-> req[c].seat]

(* At each step of a request the store is where that step expects it.      *)
InStep(c) ==
    /\ pc[c] \in {"read_seat", "apply"} => Behind(0)
    /\ pc[c] = "apply" => req[c].seat = hand.acting_seat
    /\ pc[c] \in Pending => /\ Behind(1) /\ Called(c) = applied[Len(applied)]
                            /\ req[c].id = Len(applied)
    /\ pc[c] = "insert_action" => req[c].order = Len(log)
    /\ pc[c] \in Storing => Behind(0) /\ req[c].id = Len(applied)
    /\ pc[c] \in {"select_snapshot", "insert_snapshot"} => req[c].upto = Len(applied)
    /\ pc[c] = "insert_snapshot" => req[c].order = Len(snaps)

(* The rows stored are those of what was applied and of nothing else, in   *)
(* the order it was; what has no row was refused one or is the last.       *)
Rows ==
    /\ Numbered(log) /\ Numbered(snaps)
    /\ \A i \in DOMAIN log :
          [type |-> log[i].type, amount |-> log[i].amount, seat |-> log[i].seat]
          = applied[log[i].id]
    /\ \A i, j \in DOMAIN log : i < j => log[i].id < log[j].id
    /\ \A n \in DOMAIN applied \ Settled : n = Len(applied)
    /\ snaps # <<>> => \A n \in acked : n <= snaps[Len(snaps)].upto

(* No two clients are busy.                                                *)
OneBusy == \A c, d \in Clients : pc[c] # "idle" /\ pc[d] # "idle" => c = d

SerialInv ==
    /\ OneBusy /\ Rows
    /\ stored => snaps # <<>>
    /\ Quiet => Behind(0)
    /\ \A c \in Clients : InStep(c)

-----------------------------------------------------------------------------
(* Rows and their places.                                                  *)

(* What the SELECT answers is at most the number of rows, and is that      *)
(* number when the rows are numbered.                                      *)
LEMMA NextOrderBound ==
    ASSUME NEW S, NEW rows \in Seq(S), Placed(rows),
           \A i \in DOMAIN rows : rows[i].order \in Nat
    PROVE  /\ NextOrder(rows) \in 0 .. Len(rows)
           /\ Numbered(rows) => NextOrder(rows) = Len(rows)
  <1> DEFINE O == {-1} \cup {rows[i].order : i \in DOMAIN rows}
  <1>1. Len(rows) \in Nat /\ DOMAIN rows = 1 .. Len(rows)
    BY LenProperties
  <1>2. O \in SUBSET Int /\ O # {} /\ \A n \in O : n <= Len(rows) - 1
    BY <1>1 DEF Placed
  <1>3. MaxOf(O) \in O /\ \A n \in O : n <= MaxOf(O)
    <2> DEFINE b == Len(rows) - 1
    <2> HIDE DEF O
    <2>1. b \in Int /\ \A n \in O : n <= b
      BY <1>1, <1>2
    <2> HIDE DEF b
    <2> QED BY <1>2, <2>1, GreatestInteger
  <1>4. MaxOf(O) \in Int /\ MaxOf(O) >= -1 /\ MaxOf(O) <= Len(rows) - 1
    BY <1>2, <1>3
  <1>5. Numbered(rows) => Len(rows) - 1 \in O
    <2>1. CASE Len(rows) = 0
      BY <2>1
    <2>2. CASE Len(rows) > 0
      BY <1>1, <2>2 DEF Numbered
    <2> QED BY <1>1, <2>1, <2>2
  <1>6. NextOrder(rows) = MaxOf(O) + 1
    BY DEF NextOrder
  <1> HIDE DEF O
  <1>7. NextOrder(rows) \in 0 .. Len(rows)
    BY <1>1, <1>4, <1>6
  <1>8. Numbered(rows) => MaxOf(O) = Len(rows) - 1
    BY <1>1, <1>3, <1>4, <1>5
  <1> QED BY <1>1, <1>6, <1>7, <1>8

(* A sequence with a row more.                                             *)
LEMMA Appended ==
    ASSUME NEW S, NEW q \in Seq(S), NEW e \in S
    PROVE  /\ Append(q, e) \in Seq(S)
           /\ Len(q) \in Nat /\ Len(Append(q, e)) = Len(q) + 1
           /\ DOMAIN q = 1 .. Len(q)
           /\ DOMAIN Append(q, e) = DOMAIN q \cup {Len(q) + 1}
           /\ Len(q) + 1 \notin DOMAIN q
           /\ \A i \in DOMAIN q : Append(q, e)[i] = q[i]
           /\ Append(q, e)[Len(q) + 1] = e
  <1>1. /\ Append(q, e) \in Seq(S) /\ Len(q) \in Nat
        /\ Len(Append(q, e)) = Len(q) + 1
        /\ DOMAIN q = 1 .. Len(q) /\ DOMAIN Append(q, e) = 1 .. Len(q) + 1
        /\ \A i \in 1 .. Len(q) : Append(q, e)[i] = q[i]
        /\ Append(q, e)[Len(q) + 1] = e
    BY AppendProperties, LenProperties
  <1>2. 1 .. Len(q) + 1 = (1 .. Len(q)) \cup {Len(q) + 1} /\ Len(q) + 1 \notin 1 .. Len(q)
    BY <1>1
  <1> QED BY <1>1, <1>2

(* An action the engine accepts is one of its steps.                       *)
LEMMA EngineStep ==
    ASSUME IInv, deck \in Rankings, NEW type, NEW amount \in 0 .. MaxAmount,
           Accepts(hand, type, amount), hand' = ApplyAction(hand, deck, type, amount),
           initial_stacks' = initial_stacks
    PROVE  IInv' /\ type \in ActionTypes /\ hand.acting_seat \in Seats
  <1>1. CanAct(hand) /\ type \in ActionTypes
    BY DEF Accepts, ActionTypes
  <1>2. hand.acting_seat \in Seats
    BY <1>1, ActingSeat DEF IInv, Sound, Running, Ended
  <1>3. ASSUME type = "fold" PROVE Next
    BY <1>3 DEF Next, Fold, Accepts, ApplyAction
  <1>4. ASSUME type = "check" PROVE Next
    BY <1>4 DEF Next, Check, Accepts, ApplyAction
  <1>5. ASSUME type = "call" PROVE Next
    BY <1>5 DEF Next, Call, Accepts, ApplyAction
  <1>6. ASSUME type = "bet" PROVE Next
    BY <1>6 DEF Next, Bet, ApplyAction
  <1>7. ASSUME type = "raise" PROVE Next
    BY <1>7 DEF Next, Raise, ApplyAction
  <1>8. ASSUME type = "all_in" PROVE Next
    BY <1>8 DEF Next, AllIn, Accepts, ApplyAction
  <1>9. Next
    BY <1>1, <1>3, <1>4, <1>5, <1>6, <1>7, <1>8 DEF ActionTypes
  <1> QED BY <1>1, <1>2, <1>9, NextIInv DEF Forward

-----------------------------------------------------------------------------
(* Steps that leave the store and the history alone.                       *)

(* The rows only grow, and a request under way stays what it is.           *)
Grows ==
    /\ Len(log) \in Nat /\ Len(log') \in Nat /\ Len(log) <= Len(log')
    /\ Len(snaps) \in Nat /\ Len(snaps') \in Nat /\ Len(snaps) <= Len(snaps')
    /\ DOMAIN applied \subseteq DOMAIN applied' /\ Ids \subseteq Ids'
    /\ Settled \subseteq Settled'

LEMMA RequestKept ==
    ASSUME Grows, NEW d, RequestOK(d), pc'[d] = pc[d], req'[d] = req[d],
           pc[d] \in Pending => req[d].id \notin Settled'
    PROVE  RequestOK(d)'
  <1> DEFINE r == req[d]
  <1>1. pc[d] = "insert_action" => req'[d].order <= Len(log')
    <2>1. ASSUME pc[d] = "insert_action" PROVE r.order \in Nat /\ r.order <= Len(log)
      BY <2>1 DEF RequestOK, Locals
    <2> QED BY <2>1 DEF Grows
  <1>2. pc[d] = "insert_snapshot" => req'[d].order \in 0 .. Len(snaps')
    <2>1. ASSUME pc[d] = "insert_snapshot" PROVE r.order \in 0 .. Len(snaps)
      BY <2>1 DEF RequestOK
    <2> QED BY <2>1 DEF Grows
  <1>3. /\ pc[d] \in Pending => r.id \in DOMAIN applied' \ Settled'
        /\ pc[d] \in Storing => r.id \in Ids'
    BY DEF RequestOK, Grows
  <1> QED BY <1>1, <1>2, <1>3 DEF RequestOK

LEMMA Unchanged ==
    ASSUME ServiceState, UNCHANGED <<hand, initial_stacks, log, snaps, applied, lost>>
    PROVE  Grows /\ IInv' /\ Ids' = Ids /\ Settled' = Settled
  <1>1. Len(log) \in Nat /\ Len(snaps) \in Nat
    BY LenProperties DEF ServiceState
  <1> QED BY <1>1 DEF Grows, Settled, Ids, ServiceState, IInv

(* What one request moves of the program counters and the local variables. *)
LEMMA OwnStep ==
    ASSUME ServiceState, NEW c \in Clients, NEW l \in Labels, NEW v,
           pc' = [pc EXCEPT ![c] = l], req' = [req EXCEPT ![c] = v]
    PROVE  /\ pc' \in [Clients -> Labels] /\ req' = [d \in Clients |-> req'[d]]
           /\ pc'[c] = l /\ req'[c] = v
           /\ \A d \in Clients \ {c} : pc'[d] = pc[d] /\ req'[d] = req[d]
  <1>1. pc \in [Clients -> Labels] /\ req = [d \in Clients |-> req[d]]
    BY DEF ServiceState
  <1> QED BY <1>1

LEMMA QuietStep ==
    ASSUME ServiceInv, alive, stored, NEW c \in Clients, NEW l \in Labels, NEW v,
           pc' = [pc EXCEPT ![c] = l], req' = [req EXCEPT ![c] = v], l # "create_hand",
           l \in Pending <=> pc[c] \in Pending, l \in Pending => v.id = req[c].id,
           RequestOK(c)',
           UNCHANGED <<hand, initial_stacks, deck, alive, stored, log, snaps, applied, acked, lost>>
    PROVE  ServiceInv'
  <1>1. /\ pc' \in [Clients -> Labels] /\ req' = [d \in Clients |-> req'[d]]
        /\ pc'[c] = l /\ req'[c] = v
        /\ \A d \in Clients \ {c} : pc'[d] = pc[d] /\ req'[d] = req[d]
    BY OwnStep DEF ServiceInv
  <1>2. Grows /\ IInv' /\ Ids' = Ids /\ Settled' = Settled
    BY Unchanged DEF ServiceInv
  <1>3. ServiceState'
    BY <1>1, <1>2 DEF ServiceInv, ServiceState, Placed
  <1>4. Stages'
    BY <1>1 DEF ServiceInv, Stages
  <1>5. ASSUME NEW d \in Clients PROVE RequestOK(d)'
    <2>1. CASE d = c
      BY <2>1
    <2>2. CASE d # c
      <3>1. RequestOK(d) /\ (pc[d] \in Pending => req[d].id \notin Settled)
        BY DEF ServiceInv, RequestOK
      <3> QED BY <1>1, <1>2, <2>2, <3>1, RequestKept
    <2> QED BY <2>1, <2>2
  <1>6. Books'
    <2>1. \A d \in Clients : /\ pc'[d] \in Pending <=> pc[d] \in Pending
                             /\ pc[d] \in Pending => req'[d].id = req[d].id
      BY <1>1
    <2> QED BY <1>2, <2>1 DEF ServiceInv, Books
  <1> QED BY <1>3, <1>4, <1>5, <1>6 DEF ServiceInv

(* A request that is past its first step acts on a stored, live hand.      *)
LEMMA Working ==
    ASSUME ServiceInv, NEW c \in Clients, pc[c] \notin {"idle", "create_hand"}
    PROVE  alive /\ stored
  BY DEF ServiceInv, ServiceState, Stages

LEMMA ActKeeps ==
    ASSUME ServiceInv, NEW c \in Clients, Act(c) \/ Decide(c) \/ ReadSeat(c)
    PROVE  ServiceInv'
  <1>1. hand.acting_seat \in Seats \cup {None}
    BY DEF ServiceInv, ServiceState, IInv, Sound, Running, Ended, Hand
  <1>2. NoRequest \in Locals
    BY BoundsAssumption DEF NoRequest, Locals
  <1>3. CASE Act(c)
    <2>1. PICK r \in Requests :
              req' = [req EXCEPT ![c] = [NoRequest EXCEPT !.type = r.type, !.amount = r.amount,
                                                          !.seat = hand.acting_seat]]
      BY <1>3 DEF Act
    <2> DEFINE v == [NoRequest EXCEPT !.type = r.type, !.amount = r.amount,
                                      !.seat = hand.acting_seat]
    <2>2. v \in Locals
      BY <1>1, <1>2, RequestsAssumption DEF Locals
    <2>3. /\ alive /\ stored /\ pc[c] = "idle" /\ pc' = [pc EXCEPT ![c] = "apply"]
          /\ UNCHANGED <<hand, initial_stacks, deck, alive, stored, log, snaps, applied, acked, lost>>
      BY <1>3 DEF Act, Goto, store, history
    <2> HIDE DEF v
    <2>4. req' = [req EXCEPT ![c] = v]
      BY <2>1 DEF v
    <2>5. pc'[c] = "apply" /\ req'[c] = v
      BY <2>3, <2>4, OwnStep DEF ServiceInv, Labels
    <2>6. RequestOK(c)'
      BY <2>2, <2>5 DEF RequestOK, Pending, Storing
    <2> QED BY <2>3, <2>4, <2>6, QuietStep DEF Labels, Pending
  <1>4. CASE Decide(c)
    <2>1. PICK r \in Requests :
              req' = [req EXCEPT ![c] = [NoRequest EXCEPT !.type = r.type, !.amount = r.amount]]
      BY <1>4 DEF Decide
    <2> DEFINE v == [NoRequest EXCEPT !.type = r.type, !.amount = r.amount]
    <2>2. v \in Locals
      BY <1>2, RequestsAssumption DEF Locals
    <2>3. /\ alive /\ stored /\ pc[c] = "idle" /\ pc' = [pc EXCEPT ![c] = "read_seat"]
          /\ UNCHANGED <<hand, initial_stacks, deck, alive, stored, log, snaps, applied, acked, lost>>
      BY <1>4 DEF Decide, Goto, store, history
    <2> HIDE DEF v
    <2>4. req' = [req EXCEPT ![c] = v]
      BY <2>1 DEF v
    <2>5. pc'[c] = "read_seat" /\ req'[c] = v
      BY <2>3, <2>4, OwnStep DEF ServiceInv, Labels
    <2>6. RequestOK(c)'
      BY <2>2, <2>5 DEF RequestOK, Pending, Storing
    <2> QED BY <2>3, <2>4, <2>6, QuietStep DEF Labels, Pending
  <1>5. CASE ReadSeat(c)
    <2> DEFINE v == [req[c] EXCEPT !.seat = hand.acting_seat]
    <2>1. /\ pc[c] = "read_seat" /\ pc' = [pc EXCEPT ![c] = "apply"]
          /\ req' = [req EXCEPT ![c] = v]
          /\ UNCHANGED <<hand, initial_stacks, deck, alive, stored, log, snaps, applied, acked, lost>>
      BY <1>5 DEF ReadSeat, Goto, store, history
    <2>2. v \in Locals
      BY <1>1, <2>1 DEF ServiceInv, RequestOK, Locals
    <2> HIDE DEF v
    <2>3. pc'[c] = "apply" /\ req'[c] = v
      BY <2>1, OwnStep DEF ServiceInv, Labels
    <2>4. RequestOK(c)'
      BY <2>2, <2>3 DEF RequestOK, Pending, Storing
    <2> QED BY <2>1, <2>4, Working, QuietStep DEF Labels, Pending
  <1> QED BY <1>3, <1>4, <1>5

(* The rows are placed, each within those before it.                       *)
LEMMA RowsPlaced ==
    ASSUME ServiceInv
    PROVE  /\ log \in Seq(Locals) /\ Placed(log) /\ (\A i \in DOMAIN log : log[i].order \in Nat)
           /\ snaps \in Seq(Snapshot) /\ Placed(snaps)
           /\ (\A i \in DOMAIN snaps : snaps[i].order \in Nat)
  <1>1. /\ log \in Seq(Locals) /\ Placed(log) /\ snaps \in Seq(Snapshot) /\ Placed(snaps)
    BY DEF ServiceInv, ServiceState
  <1>2. /\ \A i \in DOMAIN log : log[i] \in Locals
        /\ \A i \in DOMAIN snaps : snaps[i] \in Snapshot
    BY <1>1, LenProperties, ElementOfSeq
  <1>3. /\ \A i \in DOMAIN log : log[i].order \in Nat
        /\ \A i \in DOMAIN snaps : snaps[i].order \in Nat
    BY <1>2 DEF Locals, Snapshot
  <1> QED BY <1>1, <1>3

(* The SELECTs and the snapshot read the store and the runtime.            *)
LEMMA ReadsKeep ==
    ASSUME ServiceInv, NEW c \in Clients,
           SelectOrder(c) \/ TakeSnapshot(c) \/ SelectSnapshot(c)
    PROVE  ServiceInv'
  <1>1. RequestOK(c)
    BY DEF ServiceInv
  <1>2. NextOrder(log) \in 0 .. Len(log) /\ NextOrder(snaps) \in 0 .. Len(snaps)
    BY RowsPlaced, NextOrderBound
  <1>3. hand \in Hand /\ Len(applied) \in Nat /\ Len(log) \in Nat /\ Len(snaps) \in Nat
    BY LenProperties DEF ServiceInv, ServiceState, IInv, Sound, Running, Ended
  <1>4. CASE SelectOrder(c)
    <2> DEFINE v == [req[c] EXCEPT !.order = NextOrder(log)]
    <2>1. /\ pc[c] = "select_order" /\ pc' = [pc EXCEPT ![c] = "insert_action"]
          /\ req' = [req EXCEPT ![c] = v]
          /\ UNCHANGED <<hand, initial_stacks, deck, alive, stored, log, snaps, applied, acked, lost>>
      BY <1>4 DEF SelectOrder, Goto, store, history
    <2>2. v \in Locals /\ v.id = req[c].id /\ v.order <= Len(log)
      BY <1>1, <1>2, <1>3, <2>1 DEF RequestOK, Locals
    <2> HIDE DEF v
    <2>3. pc'[c] = "insert_action" /\ req'[c] = v
      BY <2>1, OwnStep DEF ServiceInv, Labels
    <2>4. Ids' = Ids /\ Settled' = Settled
      BY <2>1 DEF Settled, Ids
    <2>5. RequestOK(c)'
      BY <1>1, <2>1, <2>2, <2>3, <2>4 DEF RequestOK, Pending, Storing
    <2> QED BY <2>1, <2>2, <2>5, Working, QuietStep DEF Labels, Pending
  <1>5. CASE TakeSnapshot(c)
    <2> DEFINE v == [id |-> req[c].id, hand |-> hand, upto |-> Len(applied)]
    <2>1. /\ pc[c] = "snapshot" /\ pc' = [pc EXCEPT ![c] = "select_snapshot"]
          /\ req' = [req EXCEPT ![c] = v]
          /\ UNCHANGED <<hand, initial_stacks, deck, alive, stored, log, snaps, applied, acked, lost>>
      BY <1>5 DEF TakeSnapshot, Goto, store, history
    <2>2. v.id = req[c].id /\ v.hand \in Hand /\ v.upto \in Nat
      BY <1>3
    <2> HIDE DEF v
    <2>3. pc'[c] = "select_snapshot" /\ req'[c] = v
      BY <2>1, OwnStep DEF ServiceInv, Labels
    <2>4. Ids' = Ids /\ Settled' = Settled
      BY <2>1 DEF Settled, Ids
    <2>5. RequestOK(c)'
      BY <1>1, <2>1, <2>2, <2>3, <2>4 DEF RequestOK, Pending, Storing
    <2> QED BY <2>1, <2>2, <2>5, Working, QuietStep DEF Labels, Pending
  <1>6. CASE SelectSnapshot(c)
    <2> DEFINE v == [id |-> req[c].id, hand |-> req[c].hand, upto |-> req[c].upto,
                     order |-> NextOrder(snaps)]
    <2>1. /\ pc[c] = "select_snapshot" /\ pc' = [pc EXCEPT ![c] = "insert_snapshot"]
          /\ req' = [req EXCEPT ![c] = v]
          /\ UNCHANGED <<hand, initial_stacks, deck, alive, stored, log, snaps, applied, acked, lost>>
      BY <1>6 DEF SelectSnapshot, Goto, store, history
    <2>2. /\ v.id = req[c].id /\ v.hand = req[c].hand /\ v.upto = req[c].upto
          /\ v.order \in 0 .. Len(snaps)
      BY <1>2
    <2> HIDE DEF v
    <2>3. pc'[c] = "insert_snapshot" /\ req'[c] = v
      BY <2>1, OwnStep DEF ServiceInv, Labels
    <2>4. Ids' = Ids /\ Settled' = Settled
      BY <2>1 DEF Settled, Ids
    <2>5. RequestOK(c)'
      BY <1>1, <2>1, <2>2, <2>3, <2>4 DEF RequestOK, Pending, Storing
    <2> QED BY <2>1, <2>2, <2>5, Working, QuietStep DEF Labels, Pending
  <1> QED BY <1>4, <1>5, <1>6

-----------------------------------------------------------------------------
(* Steps that start, end, or change what is stored.                        *)

LEMMA NewHandKeeps ==
    ASSUME ServiceInv, NEW c \in Clients, NewHand(c)
    PROVE  ServiceInv'
  <1>1. /\ ~alive /\ ~stored /\ alive' = TRUE /\ stored' = stored /\ deck' \in Rankings
        /\ pc' = [pc EXCEPT ![c] = "create_hand"]
        /\ UNCHANGED <<log, snaps, req, applied, acked, lost>>
    BY DEF NewHand, Goto, store, history
  <1>2. /\ log = <<>> /\ snaps = <<>> /\ applied = <<>> /\ acked = {} /\ lost = {}
        /\ \A d \in Clients : pc[d] = "idle"
    BY <1>1 DEF ServiceInv, Stages
  <1>3. IInv'
    <2>1. PICK button \in Seats : hand' = StartNewHand(initial_stacks', button)
      BY DEF NewHand
    <2>2. initial_stacks' \in [Seats -> Nat]
      BY StacksAssumption DEF NewHand
    <2> QED BY <2>1, <2>2, StartSound DEF IInv
  <1>4. /\ pc' \in [Clients -> Labels] /\ pc'[c] = "create_hand"
        /\ \A d \in Clients \ {c} : pc'[d] = "idle"
    BY <1>1, <1>2 DEF ServiceInv, ServiceState, Labels
  <1>5. ServiceState'
    BY <1>1, <1>3, <1>4 DEF ServiceInv, ServiceState, Placed
  <1>6. Stages'
    BY <1>1, <1>2, <1>4 DEF Stages
  <1>7. ASSUME NEW d \in Clients PROVE RequestOK(d)'
    <2>1. req'[d] \in Locals
      BY <1>1, <1>2 DEF ServiceInv, RequestOK
    <2>2. pc'[d] \in {"idle", "create_hand"}
      BY <1>4
    <2> QED BY <2>1, <2>2 DEF RequestOK, Pending, Storing
  <1>8. Books'
    <2>1. /\ DOMAIN log' = {} /\ DOMAIN applied' = {} /\ acked' = {} /\ lost' = {}
          /\ Ids' = {} /\ Settled' = {}
      BY <1>1, <1>2 DEF Ids, Settled
    <2>2. \A d \in Clients : pc'[d] \notin Pending
      BY <1>4 DEF Pending
    <2> QED BY <2>1, <2>2 DEF Books
  <1> QED BY <1>5, <1>6, <1>7, <1>8 DEF ServiceInv

LEMMA CreateHandKeeps ==
    ASSUME ServiceInv, NEW c \in Clients, CreateHand(c)
    PROVE  ServiceInv'
  <1> DEFINE first == [order |-> 0, hand |-> hand, upto |-> 0]
  <1>1. /\ pc[c] = "create_hand" /\ stored' = TRUE /\ snaps' = <<first>>
        /\ pc' = [pc EXCEPT ![c] = "idle"]
        /\ UNCHANGED <<hand, initial_stacks, deck, alive, log, req, applied, acked, lost>>
    BY DEF CreateHand, Goto, history
  <1>2. /\ alive /\ ~stored /\ log = <<>> /\ applied = <<>> /\ acked = {} /\ lost = {}
        /\ \A d \in Clients \ {c} : pc[d] = "idle"
    BY <1>1 DEF ServiceInv, ServiceState, Stages
  <1>3. snaps' \in Seq(Snapshot) /\ Placed(snaps)'
    <2>1. first \in Snapshot
      BY DEF ServiceInv, ServiceState, IInv, Sound, Running, Ended, Snapshot
    <2>2. first.order = 0
      OBVIOUS
    <2> HIDE DEF first
    <2>3. <<first>> \in Seq(Snapshot) /\ DOMAIN <<first>> = {1} /\ <<first>>[1] = first
      BY <2>1
    <2> QED BY <1>1, <2>2, <2>3 DEF Placed
  <1> HIDE DEF first
  <1>4. /\ pc' \in [Clients -> Labels] /\ \A d \in Clients : pc'[d] = "idle"
    BY <1>1, <1>2 DEF ServiceInv, ServiceState, Labels
  <1>5. ServiceState'
    BY <1>1, <1>3, <1>4 DEF ServiceInv, ServiceState, IInv, Placed
  <1>6. Stages'
    BY <1>1, <1>2, <1>4 DEF Stages
  <1>7. ASSUME NEW d \in Clients PROVE RequestOK(d)'
    <2>1. req'[d] \in Locals
      <3>1. pc[d] \in {"idle", "create_hand"}
        BY <1>1, <1>2
      <3> QED BY <1>1, <3>1 DEF ServiceInv, RequestOK
    <2> QED BY <1>4, <2>1 DEF RequestOK, Pending, Storing
  <1>8. Books'
    <2>1. /\ DOMAIN log' = {} /\ DOMAIN applied' = {} /\ acked' = {} /\ lost' = {}
          /\ Ids' = {} /\ Settled' = {}
      BY <1>1, <1>2 DEF Ids, Settled
    <2>2. \A d \in Clients : pc'[d] \notin Pending
      BY <1>4 DEF Pending
    <2> QED BY <2>1, <2>2 DEF Books
  <1> QED BY <1>5, <1>6, <1>7, <1>8 DEF ServiceInv

(* A refused request ends; an accepted one is the engine's step, and is    *)
(* pending from then on.                                                   *)
LEMMA ApplyKeeps ==
    ASSUME ServiceInv, NEW c \in Clients, Apply(c)
    PROVE  ServiceInv'
  <1>1. RequestOK(c) /\ pc[c] = "apply" /\ alive /\ stored
    BY Working DEF ServiceInv, Apply
  <1>2. req[c] \in Locals /\ applied \in Seq(Action)
    BY <1>1 DEF ServiceInv, ServiceState, RequestOK
  <1>3. UNCHANGED <<initial_stacks, deck, alive, stored, log, snaps, acked, lost>>
    BY DEF Apply, store
  <1>4. CASE ~Accepts(hand, req[c].type, req[c].amount)
    <2>1. /\ req' = [req EXCEPT ![c] = NoRequest] /\ pc' = [pc EXCEPT ![c] = "idle"]
          /\ UNCHANGED <<hand, applied>>
      BY <1>4 DEF Apply, Goto
    <2>2. pc'[c] = "idle" /\ req'[c] = NoRequest
      BY <2>1, OwnStep DEF ServiceInv, Labels
    <2>3. NoRequest \in Locals
      BY BoundsAssumption DEF NoRequest, Locals
    <2>4. RequestOK(c)'
      BY <2>2, <2>3 DEF RequestOK, Pending, Storing
    <2> QED BY <1>1, <1>3, <2>1, <2>4, QuietStep DEF Labels, Pending
  <1>5. CASE Accepts(hand, req[c].type, req[c].amount)
    <2> DEFINE entry == [type |-> req[c].type, amount |-> req[c].amount,
                         seat |-> hand.acting_seat]
               v == [req[c] EXCEPT !.id = Len(applied) + 1]
    <2>1. /\ hand' = ApplyAction(hand, deck, req[c].type, req[c].amount)
          /\ applied' = Append(applied, entry)
          /\ req' = [req EXCEPT ![c] = v] /\ pc' = [pc EXCEPT ![c] = "select_order"]
      BY <1>1, <1>5 DEF Apply, Goto
    <2>2. req[c].amount \in 0 .. MaxAmount /\ IInv /\ deck \in Rankings
      BY <1>2 DEF Locals, ServiceInv, ServiceState
    <2>3. /\ IInv' /\ req[c].type \in ActionTypes /\ hand.acting_seat \in Seats
      BY <1>3, <1>5, <2>1, <2>2, EngineStep
    <2>4. entry \in Action
      BY <2>2, <2>3 DEF Action
    <2> HIDE DEF entry
    <2>5. /\ applied' \in Seq(Action) /\ Len(applied) \in Nat
          /\ DOMAIN applied' = DOMAIN applied \cup {Len(applied) + 1}
          /\ Len(applied) + 1 \notin DOMAIN applied
      BY <1>2, <2>1, <2>4, Appended
    <2>6. v \in Locals /\ v.id = Len(applied) + 1
      BY <1>2, <2>5 DEF Locals
    <2> HIDE DEF v
    <2>7. /\ pc' \in [Clients -> Labels] /\ req' = [d \in Clients |-> req'[d]]
          /\ pc'[c] = "select_order" /\ req'[c] = v
          /\ \A d \in Clients \ {c} : pc'[d] = pc[d] /\ req'[d] = req[d]
      BY <2>1, OwnStep DEF ServiceInv, Labels
    <2>8. /\ Ids' = Ids /\ Ids \subseteq DOMAIN applied /\ lost \subseteq DOMAIN applied
          /\ Settled' = Settled /\ Settled \subseteq DOMAIN applied
      BY <1>3 DEF Settled, Ids, ServiceInv, Books
    <2>9. Grows
      BY <1>3, <2>5, <2>8, LenProperties DEF Grows, ServiceInv, ServiceState
    <2>10. ServiceState'
      BY <1>3, <2>3, <2>5, <2>7 DEF ServiceInv, ServiceState, Placed
    <2>11. Stages'
      BY <1>1, <1>3, <2>7 DEF ServiceInv, Stages
    <2>12. ASSUME NEW d \in Clients PROVE RequestOK(d)'
      <3>1. CASE d = c
        BY <2>5, <2>6, <2>7, <2>8, <3>1 DEF RequestOK, Pending, Storing
      <3>2. CASE d # c
        <4>1. RequestOK(d) /\ (pc[d] \in Pending => req[d].id \notin Settled)
          BY DEF ServiceInv, RequestOK
        <4> QED BY <2>7, <2>8, <2>9, <3>2, <4>1, RequestKept
      <3> QED BY <3>1, <3>2
    <2>13. Books'
      <3>1. \A d \in Clients \ {c} :
                /\ pc'[d] \in Pending <=> pc[d] \in Pending
                /\ pc[d] \in Pending => req'[d].id = req[d].id /\ req[d].id \in DOMAIN applied
        BY <2>7 DEF ServiceInv, RequestOK
      <3>2. pc'[c] \in Pending /\ pc[c] \notin Pending /\ req'[c].id = Len(applied) + 1
        BY <1>1, <2>6, <2>7 DEF Pending
      <3>3. \A d, e \in Clients :
                pc'[d] \in Pending /\ pc'[e] \in Pending /\ req'[d].id = req'[e].id => d = e
        BY <2>5, <3>1, <3>2 DEF ServiceInv, Books
      <3>4. \A n \in DOMAIN applied' \ Settled' :
                \E d \in Clients : pc'[d] \in Pending /\ req'[d].id = n
        BY <1>1, <2>5, <2>8, <3>1, <3>2 DEF ServiceInv, Books
      <3> QED BY <1>3, <2>5, <2>8, <3>3, <3>4 DEF ServiceInv, Books
    <2> QED BY <1>3, <2>3, <2>10, <2>11, <2>12, <2>13 DEF ServiceInv
  <1> QED BY <1>3, <1>4, <1>5 DEF Apply

(* A request's row enters the log, and the request is pending no more.     *)
LEMMA InsertActionKeeps ==
    ASSUME ServiceInv, NEW c \in Clients, InsertAction(c)
    PROVE  ServiceInv'
  <1> DEFINE n == req[c].id
  <1>1. /\ RequestOK(c) /\ pc[c] = "insert_action" /\ alive /\ stored
        /\ log' = Append(log, req[c]) /\ pc' = [pc EXCEPT ![c] = "snapshot"]
        /\ UNCHANGED <<hand, initial_stacks, deck, alive, stored, snaps, req, applied, acked, lost>>
    BY Working DEF ServiceInv, InsertAction, Goto, history
  <1>2. /\ req[c] \in Locals /\ req[c].order \in Nat /\ req[c].order <= Len(log)
        /\ n \in DOMAIN applied \ Settled
    BY <1>1 DEF RequestOK, Locals, Pending
  <1>3. log \in Seq(Locals) /\ Placed(log)
    BY DEF ServiceInv, ServiceState
  <1>4. /\ log' \in Seq(Locals) /\ Len(log) \in Nat /\ Len(log') = Len(log) + 1
        /\ DOMAIN log = 1 .. Len(log) /\ DOMAIN log' = DOMAIN log \cup {Len(log) + 1}
        /\ Len(log) + 1 \notin DOMAIN log
        /\ \A i \in DOMAIN log : log'[i] = log[i]
        /\ log'[Len(log) + 1] = req[c]
    BY <1>1, <1>2, <1>3, Appended
  <1>5. Placed(log)'
    BY <1>2, <1>3, <1>4 DEF Placed
  <1>6. Ids' = Ids \cup {n} /\ Settled' = Settled \cup {n} /\ n \notin Ids /\ n \notin lost
    BY <1>1, <1>2, <1>4 DEF Ids, Settled
  <1>7. /\ pc' \in [Clients -> Labels] /\ pc'[c] = "snapshot" /\ req' = req
        /\ \A d \in Clients \ {c} : pc'[d] = pc[d]
    BY <1>1 DEF ServiceInv, ServiceState, Labels
  <1>8. Grows
    BY <1>1, <1>4, <1>6, LenProperties DEF Grows, ServiceInv, ServiceState
  <1>9. ServiceState'
    BY <1>1, <1>4, <1>5, <1>7 DEF ServiceInv, ServiceState, IInv, Placed
  <1>10. Stages'
    BY <1>1, <1>7 DEF ServiceInv, Stages
  <1>11. \A d \in Clients \ {c} : pc[d] \in Pending => req[d].id # n
    BY <1>1 DEF ServiceInv, Books, Pending
  <1>12. ASSUME NEW d \in Clients PROVE RequestOK(d)'
    <2>1. CASE d = c
      BY <1>2, <1>6, <1>7, <2>1 DEF RequestOK, Pending, Storing
    <2>2. CASE d # c
      <3>1. RequestOK(d) /\ (pc[d] \in Pending => req[d].id \notin Settled')
        BY <1>6, <1>11, <2>2 DEF ServiceInv, RequestOK
      <3> QED BY <1>7, <1>8, <2>2, <3>1, RequestKept
    <2> QED BY <2>1, <2>2
  <1>13. Books'
    <2>1. /\ \A d \in Clients \ {c} : pc'[d] \in Pending <=> pc[d] \in Pending
          /\ pc'[c] \notin Pending
      BY <1>7 DEF Pending
    <2>2. \A i, j \in DOMAIN log' : log'[i].id = log'[j].id => i = j
      <3>1. \A i \in DOMAIN log : log[i].id # n
        BY <1>6 DEF Ids
      <3> QED BY <1>4, <3>1 DEF ServiceInv, Books
    <2>3. \A m \in DOMAIN applied' \ Settled' : \E d \in Clients : pc'[d] \in Pending /\ req'[d].id = m
      BY <1>1, <1>6, <2>1 DEF ServiceInv, Books
    <2> QED BY <1>1, <1>2, <1>6, <2>1, <2>2, <2>3 DEF ServiceInv, Books
  <1> QED BY <1>9, <1>10, <1>12, <1>13 DEF ServiceInv

(* A request is answered when its snapshot is stored.                      *)
LEMMA InsertSnapshotKeeps ==
    ASSUME ServiceInv, NEW c \in Clients, InsertSnapshot(c)
    PROVE  ServiceInv'
  <1> DEFINE row == [order |-> req[c].order, hand |-> req[c].hand, upto |-> req[c].upto]
  <1>1. /\ RequestOK(c) /\ pc[c] = "insert_snapshot" /\ alive /\ stored
        /\ snaps' = Append(snaps, row) /\ acked' \subseteq acked \cup {req[c].id}
        /\ pc' = [pc EXCEPT ![c] = "idle"] /\ req' = [req EXCEPT ![c] = NoRequest]
        /\ UNCHANGED <<hand, initial_stacks, deck, alive, stored, log, applied, lost>>
    BY Working DEF ServiceInv, InsertSnapshot, Goto
  <1>2. /\ req[c].order \in 0 .. Len(snaps) /\ req[c].hand \in Hand /\ req[c].upto \in Nat
        /\ req[c].id \in Ids
    BY <1>1 DEF RequestOK, Storing
  <1>3. snaps \in Seq(Snapshot) /\ Placed(snaps) /\ Len(snaps) \in Nat
    BY LenProperties DEF ServiceInv, ServiceState
  <1>4. row \in Snapshot /\ row.order \in 0 .. Len(snaps)
    BY <1>2, <1>3 DEF Snapshot
  <1> HIDE DEF row
  <1>5. /\ snaps' \in Seq(Snapshot) /\ Len(snaps') = Len(snaps) + 1
        /\ DOMAIN snaps = 1 .. Len(snaps) /\ DOMAIN snaps' = DOMAIN snaps \cup {Len(snaps) + 1}
        /\ \A i \in DOMAIN snaps : snaps'[i] = snaps[i]
        /\ snaps'[Len(snaps) + 1] = row
    BY <1>1, <1>3, <1>4, Appended
  <1>6. Placed(snaps)'
    BY <1>3, <1>4, <1>5 DEF Placed
  <1>7. /\ pc' \in [Clients -> Labels] /\ req' = [d \in Clients |-> req'[d]]
        /\ pc'[c] = "idle" /\ req'[c] = NoRequest
        /\ \A d \in Clients \ {c} : pc'[d] = pc[d] /\ req'[d] = req[d]
    BY <1>1, OwnStep DEF ServiceInv, Labels
  <1>8. Ids' = Ids /\ Settled' = Settled
    BY <1>1 DEF Settled, Ids
  <1>9. Grows
    BY <1>1, <1>3, <1>5, <1>8, LenProperties DEF Grows, ServiceInv, ServiceState
  <1>10. ServiceState'
    BY <1>1, <1>5, <1>6, <1>7 DEF ServiceInv, ServiceState, IInv, Placed
  <1>11. Stages'
    BY <1>1, <1>7 DEF ServiceInv, Stages
  <1>12. ASSUME NEW d \in Clients PROVE RequestOK(d)'
    <2>1. CASE d = c
      <3>1. NoRequest \in Locals
        BY BoundsAssumption DEF NoRequest, Locals
      <3> QED BY <1>7, <2>1, <3>1 DEF RequestOK, Pending, Storing
    <2>2. CASE d # c
      <3>1. RequestOK(d) /\ (pc[d] \in Pending => req[d].id \notin Settled)
        BY DEF ServiceInv, RequestOK
      <3> QED BY <1>7, <1>8, <1>9, <2>2, <3>1, RequestKept
    <2> QED BY <2>1, <2>2
  <1>13. Books'
    <2>1. \A d \in Clients : /\ pc'[d] \in Pending <=> pc[d] \in Pending
                             /\ pc[d] \in Pending => req'[d].id = req[d].id
      BY <1>1, <1>7 DEF Pending
    <2> QED BY <1>1, <1>2, <1>8, <2>1 DEF ServiceInv, Books
  <1> QED BY <1>10, <1>11, <1>12, <1>13 DEF ServiceInv

(* The store raises: the request ends, and an action whose row was to be   *)
(* stored is settled without one.                                          *)
LEMMA StoreRaisesKeeps ==
    ASSUME ServiceInv, NEW c \in Clients, StoreRaises(c)
    PROVE  ServiceInv'
  <1> DEFINE n == req[c].id
  <1>1. /\ pc[c] # "idle" /\ pc' = [pc EXCEPT ![c] = "idle"]
        /\ req' = [req EXCEPT ![c] = NoRequest]
        /\ UNCHANGED <<hand, initial_stacks, deck, alive, stored, log, snaps, applied, acked>>
    BY DEF StoreRaises, Goto, store
  <1>2. lost' = IF pc[c] \in Pending THEN lost \cup {n} ELSE lost
    BY DEF StoreRaises, Pending
  <1>3. RequestOK(c) /\ (pc[c] \in Pending => n \in DOMAIN applied \ Settled)
    BY DEF ServiceInv, RequestOK
  <1>4. /\ pc' \in [Clients -> Labels] /\ req' = [d \in Clients |-> req'[d]]
        /\ pc'[c] = "idle" /\ req'[c] = NoRequest
        /\ \A d \in Clients \ {c} : pc'[d] = pc[d] /\ req'[d] = req[d]
    BY <1>1, OwnStep DEF ServiceInv, Labels
  <1>5. /\ Ids' = Ids /\ lost \subseteq lost'
        /\ Settled' = IF pc[c] \in Pending THEN Settled \cup {n} ELSE Settled
    BY <1>1, <1>2 DEF Ids, Settled
  <1>6. Grows
    BY <1>1, <1>5, LenProperties DEF Grows, ServiceInv, ServiceState
  <1>7. ServiceState'
    BY <1>1, <1>4 DEF ServiceInv, ServiceState, IInv, Placed
  <1>8. Stages'
    <2>1. ~stored => pc[c] \notin Pending
      BY DEF ServiceInv, Stages, Pending
    <2> QED BY <1>1, <1>2, <1>4, <2>1 DEF ServiceInv, Stages
  <1>9. \A d \in Clients \ {c} : pc[d] \in Pending => req[d].id \notin Settled'
    <2>1. \A d \in Clients \ {c} : pc[d] \in Pending => req[d].id \notin Settled
      BY DEF ServiceInv, RequestOK
    <2>2. \A d \in Clients \ {c} : pc[d] \in Pending /\ pc[c] \in Pending => req[d].id # n
      BY DEF ServiceInv, Books
    <2> QED BY <1>5, <2>1, <2>2
  <1>10. ASSUME NEW d \in Clients PROVE RequestOK(d)'
    <2>1. CASE d = c
      <3>1. NoRequest \in Locals
        BY BoundsAssumption DEF NoRequest, Locals
      <3> QED BY <1>4, <2>1, <3>1 DEF RequestOK, Pending, Storing
    <2>2. CASE d # c
      <3>1. RequestOK(d) /\ (pc[d] \in Pending => req[d].id \notin Settled')
        BY <1>9, <2>2 DEF ServiceInv
      <3> QED BY <1>4, <1>6, <2>2, <3>1, RequestKept
    <2> QED BY <2>1, <2>2
  <1>11. Books'
    <2>1. /\ \A d \in Clients \ {c} : /\ pc'[d] \in Pending <=> pc[d] \in Pending
                                      /\ pc[d] \in Pending => req'[d].id = req[d].id
          /\ pc'[c] \notin Pending
      BY <1>4 DEF Pending
    <2>2. \A m \in DOMAIN applied' \ Settled' :
              alive => \E d \in Clients : pc'[d] \in Pending /\ req'[d].id = m
      <3> SUFFICES ASSUME NEW m \in DOMAIN applied \ Settled', alive
                   PROVE  \E d \in Clients : pc'[d] \in Pending /\ req'[d].id = m
        BY <1>1
      <3>1. m \in DOMAIN applied \ Settled /\ (pc[c] \in Pending => m # n)
        BY <1>5
      <3>2. PICK d \in Clients : pc[d] \in Pending /\ req[d].id = m
        BY <3>1 DEF ServiceInv, Books
      <3> QED BY <2>1, <3>1, <3>2
    <2>3. lost' \subseteq DOMAIN applied /\ Ids \cap lost' = {}
      BY <1>2, <1>3 DEF ServiceInv, Books, Settled
    <2>4. \A d, e \in Clients :
              pc'[d] \in Pending /\ pc'[e] \in Pending /\ req'[d].id = req'[e].id => d = e
      BY <2>1 DEF ServiceInv, Books
    <2> QED BY <1>1, <1>5, <2>2, <2>3, <2>4 DEF ServiceInv, Books
  <1> QED BY <1>7, <1>8, <1>10, <1>11 DEF ServiceInv

(* The process may die anywhere: what is stored does not change.           *)
LEMMA CrashKeeps ==
    ASSUME ServiceInv, Crash
    PROVE  ServiceInv'
  <1>1. /\ alive' = FALSE /\ pc' = [d \in Clients |-> "idle"]
        /\ req' = [d \in Clients |-> NoRequest]
        /\ UNCHANGED <<hand, initial_stacks, deck, stored, log, snaps, applied, acked, lost>>
    BY DEF Crash, store, history
  <1>2. \A d \in Clients : pc'[d] = "idle" /\ req'[d] = NoRequest
    BY <1>1
  <1>3. Ids' = Ids /\ Settled' = Settled
    BY <1>1 DEF Settled, Ids
  <1>4. ServiceState'
    BY <1>1 DEF ServiceInv, ServiceState, IInv, Placed, Labels
  <1>5. Stages'
    BY <1>1, <1>2 DEF ServiceInv, Stages
  <1>6. ASSUME NEW d \in Clients PROVE RequestOK(d)'
    <2>1. NoRequest \in Locals
      BY BoundsAssumption DEF NoRequest, Locals
    <2> QED BY <1>2, <2>1 DEF RequestOK, Pending, Storing
  <1>7. Books'
    <2>1. \A d \in Clients : pc'[d] \notin Pending
      BY <1>2 DEF Pending
    <2> QED BY <1>1, <1>3, <2>1 DEF ServiceInv, Books
  <1> QED BY <1>4, <1>5, <1>6, <1>7 DEF ServiceInv

LEMMA ServiceInitInv == ServiceInit => ServiceInv
  <1> SUFFICES ASSUME ServiceInit PROVE ServiceInv
    OBVIOUS
  <1>1. /\ alive = FALSE /\ stored = FALSE /\ log = <<>> /\ snaps = <<>>
        /\ pc = [c \in Clients |-> "idle"] /\ req = [c \in Clients |-> NoRequest]
        /\ applied = <<>> /\ acked = {} /\ lost = {} /\ deck \in Rankings
    BY DEF ServiceInit
  <1>2. IInv
    <2>1. initial_stacks \in [Seats -> Nat] /\ hand = StartNewHand(initial_stacks, 0)
      BY StacksAssumption DEF ServiceInit
    <2>2. 0 \in Seats
      BY SeatsAssumption DEF Seats
    <2> QED BY <2>1, <2>2, StartSound DEF IInv
  <1>3. /\ DOMAIN log = {} /\ DOMAIN snaps = {} /\ DOMAIN applied = {}
        /\ Ids = {} /\ Settled = {}
    BY <1>1 DEF Ids, Settled
  <1>4. ServiceState
    <2>1. log \in Seq(Locals) /\ snaps \in Seq(Snapshot) /\ applied \in Seq(Action)
      BY <1>1, EmptySeq
    <2>2. pc \in [Clients -> Labels] /\ req = [c \in Clients |-> req[c]]
      BY <1>1 DEF Labels
    <2>3. Placed(log) /\ Placed(snaps)
      BY <1>3 DEF Placed
    <2> QED BY <1>1, <1>2, <2>1, <2>2, <2>3 DEF ServiceState
  <1>5. NoRequest \in Locals
    BY BoundsAssumption DEF NoRequest, Locals
  <1>6. \A c \in Clients : RequestOK(c)
    BY <1>1, <1>5 DEF RequestOK, Pending, Storing
  <1> QED BY <1>1, <1>3, <1>4, <1>6 DEF ServiceInv, Stages, Books, Pending

LEMMA ServiceNextInv ==
    ASSUME ServiceInv, [ServiceNext]_svars
    PROVE  ServiceInv'
  <1>1. ASSUME UNCHANGED svars PROVE ServiceInv'
    <2>1. Ids' = Ids /\ Settled' = Settled
      BY <1>1 DEF svars, Ids, Settled
    <2> QED BY <1>1, <2>1 DEF svars, ServiceInv, ServiceState, IInv, Placed, Stages,
                              RequestOK, Books
  <1> QED BY <1>1, NewHandKeeps, ActKeeps, CreateHandKeeps, ApplyKeeps, ReadsKeep,
             InsertActionKeeps, InsertSnapshotKeeps, StoreRaisesKeeps, CrashKeeps DEF ServiceNext, Handle

-----------------------------------------------------------------------------
(* Theorems.                                                               *)

(* The invariant holds whatever the clients do.                            *)
THEOREM ServiceInvariant == ServiceSpec => []ServiceInv
  <1>1. ServiceInv /\ [ServiceNext]_svars => ServiceInv'
    BY ServiceNextInv
  <1> QED BY <1>1, ServiceInitInv, PTL DEF ServiceSpec

(* However requests interleave, the live hand is well formed and its chips *)
(* are accounted for seat by seat, and the history is one of accepted      *)
(* actions.                                                                *)
THEOREM LiveHandSound == ServiceSpec => [](ServiceTypeOK /\ SeatLedger /\ PotIsInvestments)
  <1>1. ServiceInv => TypeOK /\ SeatLedger /\ PotIsInvestments
    BY DEF ServiceInv, ServiceState, IInv, Sound, Running, Ended, TypeOK, SeatLedger,
           PotIsInvestments
  <1>2. ServiceInv => /\ pc \in [Clients -> Labels] /\ applied \in Seq(Action)
                      /\ acked \subseteq DOMAIN applied /\ lost \subseteq DOMAIN applied
    BY DEF ServiceInv, ServiceState, Books
  <1>3. ServiceInv => ServiceTypeOK /\ SeatLedger /\ PotIsInvestments
    BY <1>1, <1>2 DEF ServiceTypeOK
  <1> QED BY <1>3, ServiceInvariant, PTL

(* However requests interleave, whatever the store refuses and whenever    *)
(* the process dies, an answered action is in the log, no action is in it  *)
(* twice, a refused one never is, and once all requests are answered every *)
(* accepted action is in the log but the refused ones.                     *)
THEOREM AcceptedLogged == ServiceSpec => []LoggedOnce
  <1>1. ASSUME ServiceInv, Quiet PROVE Ids = DOMAIN applied \ lost
    <2>1. \A c \in Clients : pc[c] \notin Pending
      BY <1>1 DEF Quiet, Pending
    <2> QED BY <1>1, <2>1 DEF ServiceInv, Books, Quiet, Settled
  <1>2. ServiceInv => LoggedOnce
    BY <1>1 DEF LoggedOnce, ServiceInv, Books
  <1> QED BY <1>2, ServiceInvariant, PTL

-----------------------------------------------------------------------------
(* One request at a time: what a step keeps.                               *)

LEMMA Lengths ==
    ASSUME ServiceInv
    PROVE  /\ Len(log) \in Nat /\ Len(snaps) \in Nat /\ Len(applied) \in Nat
           /\ DOMAIN log = 1 .. Len(log) /\ DOMAIN snaps = 1 .. Len(snaps)
           /\ DOMAIN applied = 1 .. Len(applied)
  BY LenProperties DEF ServiceInv, ServiceState

(* No other client is busy, before and after.                              *)
Alone(c) == \A d \in Clients \ {c} : pc'[d] = "idle" /\ pc[d] = "idle"

(* A client that begins or goes on is the only one.                        *)
LEMMA StaysAlone ==
    ASSUME ServiceInv, OneBusy, OneBusy', NEW c \in Clients, NEW l \in Labels,
           pc' = [pc EXCEPT ![c] = l], pc[c] # "idle" \/ l # "idle"
    PROVE  Alone(c) /\ pc'[c] = l
  BY DEF OneBusy, Alone, ServiceInv, ServiceState

(* What a step of c must establish when the others are idle.               *)
LEMMA SerialFrom ==
    ASSUME ServiceInv', OneBusy', NEW c \in Clients, Alone(c), InStep(c)', Rows',
           stored' => snaps' # <<>>, Quiet' => Behind(0)'
    PROVE  SerialInv'
  <1>1. ASSUME NEW d \in Clients, d # c PROVE InStep(d)'
    BY <1>1 DEF Alone, InStep, Pending, Storing
  <1> QED BY <1>1 DEF SerialInv

(* Nothing is stored: the rows and the history are as they were.           *)
LEMMA SerialQuiet ==
    ASSUME ServiceInv', OneBusy', NEW c \in Clients, Alone(c), InStep(c)', Rows,
           snaps # <<>>, UNCHANGED <<log, snaps, applied, acked, lost, stored>>,
           Behind(0) \/ pc'[c] # "idle"
    PROVE  SerialInv'
  <1>1. Rows'
    BY DEF Rows, Numbered, Settled, Ids
  <1>2. Quiet' => pc'[c] = "idle"
    BY DEF Quiet
  <1> QED BY <1>1, <1>2, SerialFrom DEF Behind

(* The hand is started and stored.                                         *)
LEMMA SerialStarts ==
    ASSUME ServiceInv, ServiceInv', SerialInv, OneBusy', NEW c \in Clients,
           NewHand(c) \/ CreateHand(c)
    PROVE  SerialInv'
  <1>1. Rows /\ OneBusy
    BY DEF SerialInv
  <1>2. CASE NewHand(c)
    <2>1. /\ ~stored /\ pc' = [pc EXCEPT ![c] = "create_hand"]
          /\ UNCHANGED <<log, snaps, applied, acked, lost, stored>>
      BY <1>2 DEF NewHand, Goto, store, history
    <2>2. Alone(c) /\ pc'[c] = "create_hand"
      BY <1>1, <2>1, StaysAlone DEF Labels
    <2>3. Rows'
      BY <1>1, <2>1 DEF Rows, Numbered, Settled, Ids
    <2>4. InStep(c)' /\ ~stored' /\ ~Quiet'
      BY <2>1, <2>2 DEF InStep, Pending, Storing, Quiet
    <2> QED BY <2>2, <2>3, <2>4, SerialFrom
  <1>3. CASE CreateHand(c)
    <2> DEFINE first == [order |-> 0, hand |-> hand, upto |-> 0]
    <2>1. /\ pc[c] = "create_hand" /\ pc' = [pc EXCEPT ![c] = "idle"] /\ snaps' = <<first>>
          /\ UNCHANGED <<log, applied, acked, lost>>
      BY <1>3 DEF CreateHand, Goto, history
    <2>2. Alone(c) /\ pc'[c] = "idle"
      BY <1>1, <2>1, StaysAlone DEF Labels
    <2>3. log = <<>> /\ applied = <<>> /\ acked = {}
      BY <2>1 DEF ServiceInv, Stages
    <2>4. first.order = 0
      OBVIOUS
    <2> HIDE DEF first
    <2>5. DOMAIN snaps' = {1} /\ snaps'[1] = first /\ snaps' # <<>>
      BY <2>1
    <2>6. Rows'
      BY <2>1, <2>3, <2>4, <2>5 DEF Rows, Numbered, Settled, Ids
    <2>7. Behind(0)'
      BY <2>1, <2>3 DEF Behind
    <2>8. InStep(c)'
      BY <2>2 DEF InStep, Pending, Storing
    <2> QED BY <2>2, <2>5, <2>6, <2>7, <2>8, SerialFrom
  <1> QED BY <1>2, <1>3

(* Before its first step nobody is busy, and the log is up to date.        *)
LEMMA Fresh ==
    ASSUME SerialInv, NEW c \in Clients, Alone(c), pc[c] = "idle", alive, stored
    PROVE  Behind(0)
  BY DEF SerialInv, Alone, Quiet

(* Steps that read what the next ones store.                               *)
LEMMA SerialReads ==
    ASSUME ServiceInv, ServiceInv', SerialInv, OneBusy', NEW c \in Clients,
           Act(c) \/ Decide(c) \/ ReadSeat(c) \/ SelectOrder(c) \/ TakeSnapshot(c)
           \/ SelectSnapshot(c)
    PROVE  SerialInv'
  <1>1. Rows /\ OneBusy /\ InStep(c) /\ RequestOK(c)
    BY DEF SerialInv, ServiceInv
  <1>2. UNCHANGED <<hand, log, snaps, applied, acked, lost, stored, alive>>
    BY DEF Act, Decide, ReadSeat, SelectOrder, TakeSnapshot, SelectSnapshot, store, history
  <1>3. alive /\ stored /\ snaps # <<>>
    BY Working DEF Act, Decide, ReadSeat, SelectOrder, TakeSnapshot, SelectSnapshot, SerialInv
  <1>4. \A n : Behind(n)' <=> Behind(n)
    BY <1>2 DEF Behind
  <1>5. NextOrder(log) = Len(log) /\ NextOrder(snaps) = Len(snaps)
    BY <1>1, RowsPlaced, NextOrderBound DEF Rows
  <1>6. NoRequest \in Locals
    BY BoundsAssumption DEF NoRequest, Locals
  <1>7. CASE Act(c)
    <2>1. PICK r \in Requests :
              req' = [req EXCEPT ![c] = [NoRequest EXCEPT !.type = r.type, !.amount = r.amount,
                                                          !.seat = hand.acting_seat]]
      BY <1>7 DEF Act
    <2> DEFINE v == [NoRequest EXCEPT !.type = r.type, !.amount = r.amount,
                                      !.seat = hand.acting_seat]
    <2>2. v.seat = hand.acting_seat
      BY <1>6 DEF Locals
    <2> HIDE DEF v
    <2>3. pc[c] = "idle" /\ pc' = [pc EXCEPT ![c] = "apply"] /\ req' = [req EXCEPT ![c] = v]
      BY <1>7, <2>1 DEF Act, Goto, v
    <2>4. Alone(c) /\ pc'[c] = "apply" /\ req'[c] = v
      BY <1>1, <2>3, StaysAlone, OwnStep DEF Labels, ServiceInv
    <2>5. Behind(0)
      BY <1>3, <2>3, <2>4, Fresh
    <2>6. InStep(c)'
      BY <1>2, <1>4, <2>2, <2>4, <2>5 DEF InStep, Pending, Storing
    <2> QED BY <1>1, <1>2, <1>3, <2>4, <2>5, <2>6, SerialQuiet
  <1>8. CASE Decide(c)
    <2>1. pc[c] = "idle" /\ pc' = [pc EXCEPT ![c] = "read_seat"]
      BY <1>8 DEF Decide, Goto
    <2>2. Alone(c) /\ pc'[c] = "read_seat"
      BY <1>1, <2>1, StaysAlone DEF Labels
    <2>3. Behind(0)
      BY <1>3, <2>1, <2>2, Fresh
    <2>4. InStep(c)'
      BY <1>4, <2>2, <2>3 DEF InStep, Pending, Storing
    <2> QED BY <1>1, <1>2, <1>3, <2>2, <2>3, <2>4, SerialQuiet
  <1>9. CASE ReadSeat(c)
    <2> DEFINE v == [req[c] EXCEPT !.seat = hand.acting_seat]
    <2>1. /\ pc[c] = "read_seat" /\ pc' = [pc EXCEPT ![c] = "apply"]
          /\ req' = [req EXCEPT ![c] = v]
      BY <1>9 DEF ReadSeat, Goto
    <2>2. v.seat = hand.acting_seat
      BY <1>1, <2>1 DEF RequestOK, Locals
    <2> HIDE DEF v
    <2>3. Alone(c) /\ pc'[c] = "apply" /\ req'[c] = v
      BY <1>1, <2>1, StaysAlone, OwnStep DEF Labels, ServiceInv
    <2>4. Behind(0)
      BY <1>1, <2>1 DEF InStep
    <2>5. InStep(c)'
      BY <1>2, <1>4, <2>2, <2>3, <2>4 DEF InStep, Pending, Storing
    <2> QED BY <1>1, <1>2, <1>3, <2>3, <2>4, <2>5, SerialQuiet
  <1>10. CASE SelectOrder(c)
    <2> DEFINE v == [req[c] EXCEPT !.order = NextOrder(log)]
    <2>1. /\ pc[c] = "select_order" /\ pc' = [pc EXCEPT ![c] = "insert_action"]
          /\ req' = [req EXCEPT ![c] = v]
      BY <1>10 DEF SelectOrder, Goto
    <2>2. /\ v.order = Len(log) /\ v.id = req[c].id
          /\ v.type = req[c].type /\ v.amount = req[c].amount /\ v.seat = req[c].seat
      BY <1>1, <1>5, <2>1 DEF RequestOK, Locals
    <2> HIDE DEF v
    <2>3. Alone(c) /\ pc'[c] = "insert_action" /\ req'[c] = v
      BY <1>1, <2>1, StaysAlone, OwnStep DEF Labels, ServiceInv
    <2>4. Behind(1) /\ Called(c) = applied[Len(applied)] /\ req[c].id = Len(applied)
      BY <1>1, <2>1 DEF InStep, Pending
    <2>5. InStep(c)'
      BY <1>2, <1>4, <2>2, <2>3, <2>4 DEF InStep, Called, Pending, Storing
    <2> QED BY <1>1, <1>2, <1>3, <2>3, <2>4, <2>5, SerialQuiet
  <1>11. CASE TakeSnapshot(c)
    <2> DEFINE v == [id |-> req[c].id, hand |-> hand, upto |-> Len(applied)]
    <2>1. /\ pc[c] = "snapshot" /\ pc' = [pc EXCEPT ![c] = "select_snapshot"]
          /\ req' = [req EXCEPT ![c] = v]
      BY <1>11 DEF TakeSnapshot, Goto
    <2>2. v.id = req[c].id /\ v.upto = Len(applied)
      OBVIOUS
    <2> HIDE DEF v
    <2>3. Alone(c) /\ pc'[c] = "select_snapshot" /\ req'[c] = v
      BY <1>1, <2>1, StaysAlone, OwnStep DEF Labels, ServiceInv
    <2>4. Behind(0) /\ req[c].id = Len(applied)
      BY <1>1, <2>1 DEF InStep, Storing
    <2>5. InStep(c)'
      BY <1>2, <1>4, <2>2, <2>3, <2>4 DEF InStep, Pending, Storing
    <2> QED BY <1>1, <1>2, <1>3, <2>3, <2>4, <2>5, SerialQuiet
  <1>12. CASE SelectSnapshot(c)
    <2> DEFINE v == [id |-> req[c].id, hand |-> req[c].hand, upto |-> req[c].upto,
                     order |-> NextOrder(snaps)]
    <2>1. /\ pc[c] = "select_snapshot" /\ pc' = [pc EXCEPT ![c] = "insert_snapshot"]
          /\ req' = [req EXCEPT ![c] = v]
      BY <1>12 DEF SelectSnapshot, Goto
    <2>2. v.id = req[c].id /\ v.upto = req[c].upto /\ v.order = Len(snaps)
      BY <1>5
    <2> HIDE DEF v
    <2>3. Alone(c) /\ pc'[c] = "insert_snapshot" /\ req'[c] = v
      BY <1>1, <2>1, StaysAlone, OwnStep DEF Labels, ServiceInv
    <2>4. Behind(0) /\ req[c].id = Len(applied) /\ req[c].upto = Len(applied)
      BY <1>1, <2>1 DEF InStep, Storing
    <2>5. InStep(c)'
      BY <1>2, <1>4, <2>2, <2>3, <2>4 DEF InStep, Pending, Storing
    <2> QED BY <1>1, <1>2, <1>3, <2>3, <2>4, <2>5, SerialQuiet
  <1> QED BY <1>7, <1>8, <1>9, <1>10, <1>11, <1>12

(* An accepted action puts the log one action behind.                      *)
LEMMA SerialApply ==
    ASSUME ServiceInv, ServiceInv', SerialInv, OneBusy', NEW c \in Clients, Apply(c)
    PROVE  SerialInv'
  <1>1. Rows /\ OneBusy /\ InStep(c) /\ RequestOK(c)
    BY DEF SerialInv, ServiceInv
  <1>2. /\ pc[c] = "apply" /\ UNCHANGED <<log, snaps, acked, lost, stored>>
        /\ alive /\ stored /\ snaps # <<>>
    BY Working DEF Apply, store, SerialInv
  <1>3. Behind(0) /\ req[c].seat = hand.acting_seat /\ req[c] \in Locals
    BY <1>1, <1>2 DEF InStep, RequestOK
  <1>4. CASE ~Accepts(hand, req[c].type, req[c].amount)
    <2>1. pc' = [pc EXCEPT ![c] = "idle"] /\ applied' = applied
      BY <1>4 DEF Apply, Goto
    <2>2. Alone(c) /\ pc'[c] = "idle"
      BY <1>1, <1>2, <2>1, StaysAlone DEF Labels
    <2>3. InStep(c)'
      BY <2>2 DEF InStep, Pending, Storing
    <2> QED BY <1>1, <1>2, <1>3, <2>1, <2>2, <2>3, SerialQuiet
  <1>5. CASE Accepts(hand, req[c].type, req[c].amount)
    <2> DEFINE entry == [type |-> req[c].type, amount |-> req[c].amount,
                         seat |-> hand.acting_seat]
               v == [req[c] EXCEPT !.id = Len(applied) + 1]
    <2>1. /\ applied' = Append(applied, entry)
          /\ req' = [req EXCEPT ![c] = v] /\ pc' = [pc EXCEPT ![c] = "select_order"]
      BY <1>5 DEF Apply, Goto
    <2>2. /\ v.id = Len(applied) + 1 /\ v.type = entry.type /\ v.amount = entry.amount
          /\ v.seat = entry.seat
          /\ entry = [type |-> entry.type, amount |-> entry.amount, seat |-> entry.seat]
      BY <1>3 DEF Locals
    <2>3. applied \in Seq(Action \cup {entry})
      BY SeqMonotonic DEF ServiceInv, ServiceState
    <2> HIDE DEF entry, v
    <2>4. /\ Len(applied) \in Nat /\ Len(applied') = Len(applied) + 1
          /\ DOMAIN applied' = DOMAIN applied \cup {Len(applied) + 1}
          /\ \A i \in DOMAIN applied : applied'[i] = applied[i]
          /\ applied'[Len(applied) + 1] = entry
      BY <2>1, <2>3, Appended
    <2>5. Alone(c) /\ pc'[c] = "select_order" /\ req'[c] = v
      BY <1>1, <1>2, <2>1, StaysAlone, OwnStep DEF Labels, ServiceInv
    <2>6. Behind(1)'
      BY <1>2, <1>3, <2>4, Lengths DEF Behind
    <2>7. InStep(c)'
      BY <2>2, <2>4, <2>5, <2>6 DEF InStep, Called, Pending, Storing
    <2>8. Rows'
      <3>1. \A i \in DOMAIN log : log[i].id \in DOMAIN applied
        BY DEF ServiceInv, Books, Ids
      <3>2. DOMAIN applied \subseteq Settled
        <4>1. \A d \in Clients : pc[d] \notin Pending
          BY <1>2, <2>5 DEF Alone, Pending
        <4> QED BY <1>2, <4>1 DEF ServiceInv, Books
      <3>3. Settled' = Settled
        BY <1>2 DEF Settled, Ids
      <3>4. \A n \in DOMAIN applied' \ Settled' : n = Len(applied')
        BY <2>4, <3>2, <3>3
      <3> QED BY <1>1, <1>2, <2>4, <3>1, <3>4 DEF Rows, Numbered
    <2>9. ~Quiet'
      BY <2>5 DEF Quiet
    <2> QED BY <1>2, <2>5, <2>7, <2>8, <2>9, SerialFrom
  <1> QED BY <1>4, <1>5

(* Its row brings the log up to date.                                      *)
LEMMA SerialLogs ==
    ASSUME ServiceInv, ServiceInv', SerialInv, OneBusy', NEW c \in Clients, InsertAction(c)
    PROVE  SerialInv'
  <1>1. Rows /\ OneBusy /\ InStep(c) /\ RequestOK(c)
    BY DEF SerialInv, ServiceInv
  <1>2. /\ pc[c] = "insert_action" /\ pc' = [pc EXCEPT ![c] = "snapshot"]
        /\ log' = Append(log, req[c]) /\ UNCHANGED <<snaps, req, applied, acked, lost, stored>>
        /\ stored /\ snaps # <<>>
    BY Working DEF InsertAction, Goto, history, SerialInv
  <1>3. /\ req[c] \in Locals /\ Behind(1) /\ Called(c) = applied[Len(applied)]
        /\ req[c].id = Len(applied) /\ req[c].order = Len(log)
        /\ req[c].id \in DOMAIN applied \ Settled
    BY <1>1, <1>2 DEF RequestOK, InStep, Pending
  <1>4. log \in Seq(Locals)
    BY DEF ServiceInv, ServiceState
  <1>5. /\ Len(log) \in Nat /\ Len(log') = Len(log) + 1
        /\ DOMAIN log = 1 .. Len(log) /\ DOMAIN log' = DOMAIN log \cup {Len(log) + 1}
        /\ \A i \in DOMAIN log : log'[i] = log[i]
        /\ log'[Len(log) + 1] = req[c]
    BY <1>2, <1>3, <1>4, Appended
  <1>6. Alone(c) /\ pc'[c] = "snapshot" /\ req'[c] = req[c]
    BY <1>1, <1>2, StaysAlone DEF Labels
  <1>7. Behind(0)'
    BY <1>2, <1>3, <1>5, Lengths DEF Behind
  <1>8. InStep(c)'
    BY <1>2, <1>3, <1>6, <1>7 DEF InStep, Pending, Storing
  <1>9. Rows'
    <2>1. Numbered(log)'
      BY <1>1, <1>3, <1>5 DEF Rows, Numbered
    <2>2. \A i \in DOMAIN log' :
              [type |-> log'[i].type, amount |-> log'[i].amount, seat |-> log'[i].seat]
              = applied'[log'[i].id]
      BY <1>1, <1>2, <1>3, <1>5 DEF Rows, Called
    <2>3. \A i \in DOMAIN log : log[i].id \in Nat /\ log[i].id < Len(applied)
      <3>1. \A i \in DOMAIN log : log[i].id \in DOMAIN applied \ {Len(applied)}
        BY <1>3 DEF ServiceInv, Books, Ids, Settled
      <3> QED BY <3>1, Lengths
    <2>4. \A i, j \in DOMAIN log' : i < j => log'[i].id < log'[j].id
      <3> SUFFICES ASSUME NEW i \in DOMAIN log', NEW j \in DOMAIN log', i < j
                   PROVE  log'[i].id < log'[j].id
        OBVIOUS
      <3>1. i \in DOMAIN log
        BY <1>5
      <3>2. CASE j \in DOMAIN log
        BY <1>1, <1>5, <3>1, <3>2 DEF Rows
      <3>3. CASE j = Len(log) + 1
        BY <1>3, <1>5, <2>3, <3>1, <3>3
      <3> QED BY <1>5, <3>2, <3>3
    <2>5. \A n \in DOMAIN applied' \ Settled' : n = Len(applied')
      <3>1. Settled \subseteq Settled'
        BY <1>2, <1>5 DEF Settled, Ids
      <3> QED BY <1>1, <1>2, <3>1 DEF Rows
    <2> QED BY <1>1, <1>2, <2>1, <2>2, <2>4, <2>5 DEF Rows, Numbered
  <1>10. ~Quiet'
    BY <1>6 DEF Quiet
  <1> QED BY <1>2, <1>6, <1>8, <1>9, <1>10, SerialFrom

(* The snapshot brings the store up to date.                               *)
LEMMA SerialAnswers ==
    ASSUME ServiceInv, ServiceInv', SerialInv, OneBusy', NEW c \in Clients, InsertSnapshot(c)
    PROVE  SerialInv'
  <1> DEFINE row == [order |-> req[c].order, hand |-> req[c].hand, upto |-> req[c].upto]
  <1>1. Rows /\ OneBusy /\ InStep(c) /\ RequestOK(c)
    BY DEF SerialInv, ServiceInv
  <1>2. /\ pc[c] = "insert_snapshot" /\ pc' = [pc EXCEPT ![c] = "idle"]
        /\ snaps' = Append(snaps, row) /\ acked' \subseteq acked \cup {req[c].id}
        /\ UNCHANGED <<log, applied, lost, stored>>
    BY DEF InsertSnapshot, Goto
  <1>3. /\ Behind(0) /\ req[c].id = Len(applied) /\ req[c].upto = Len(applied)
        /\ req[c].order = Len(snaps)
    BY <1>1, <1>2 DEF InStep, Storing
  <1>4. row.order = Len(snaps) /\ row.upto = Len(applied)
    BY <1>3
  <1>5. snaps \in Seq(Snapshot \cup {row})
    BY SeqMonotonic DEF ServiceInv, ServiceState
  <1> HIDE DEF row
  <1>6. /\ Len(snaps) \in Nat /\ Len(snaps') = Len(snaps) + 1
        /\ DOMAIN snaps' = DOMAIN snaps \cup {Len(snaps) + 1}
        /\ \A i \in DOMAIN snaps : snaps'[i] = snaps[i]
        /\ snaps'[Len(snaps) + 1] = row
    BY <1>2, <1>5, Appended
  <1>7. Alone(c) /\ pc'[c] = "idle"
    BY <1>1, <1>2, StaysAlone DEF Labels
  <1>8. Behind(0)' /\ snaps' # <<>>
    BY <1>2, <1>3, <1>6 DEF Behind
  <1>9. InStep(c)'
    BY <1>7 DEF InStep, Pending, Storing
  <1>10. Rows'
    <2>1. Numbered(snaps)'
      BY <1>1, <1>4, <1>6 DEF Rows, Numbered
    <2>2. \A n \in acked' : n <= snaps'[Len(snaps')].upto
      <3>1. acked \subseteq DOMAIN applied /\ Len(applied) \in Nat /\ DOMAIN applied = 1 .. Len(applied)
        BY Lengths DEF ServiceInv, Books
      <3>2. \A n \in acked' : n <= Len(applied)
        BY <1>2, <1>3, <3>1
      <3> QED BY <1>4, <1>6, <3>2
    <2>3. Settled' = Settled
      BY <1>2 DEF Settled, Ids
    <2> QED BY <1>1, <1>2, <2>1, <2>2, <2>3 DEF Rows, Numbered
  <1> QED BY <1>7, <1>8, <1>9, <1>10, SerialFrom

(* A refused row is missing for good; a refused snapshot leaves the log up *)
(* to date.                                                                *)
LEMMA SerialRaises ==
    ASSUME ServiceInv, ServiceInv', SerialInv, OneBusy', NEW c \in Clients, StoreRaises(c)
    PROVE  SerialInv'
  <1>1. Rows /\ OneBusy /\ InStep(c)
    BY DEF SerialInv
  <1>2. /\ pc[c] \in {"create_hand"} \cup Pending \cup Storing
        /\ pc' = [pc EXCEPT ![c] = "idle"]
        /\ lost' = IF pc[c] \in Pending THEN lost \cup {req[c].id} ELSE lost
        /\ UNCHANGED <<log, snaps, applied, acked, stored>>
    BY DEF StoreRaises, Goto, store, Pending, Storing
  <1>3. Alone(c) /\ pc'[c] = "idle"
    BY <1>1, <1>2, StaysAlone DEF Labels, Pending, Storing
  <1>4. InStep(c)'
    BY <1>3 DEF InStep, Pending, Storing
  <1>5. Rows'
    <2>1. Settled \subseteq Settled'
      BY <1>2 DEF Settled, Ids
    <2> QED BY <1>1, <1>2, <2>1 DEF Rows, Numbered
  <1>6. ASSUME Quiet' PROVE Behind(0)'
    <2>1. stored /\ pc[c] # "create_hand"
      BY <1>2, <1>6 DEF Quiet, ServiceInv, Stages
    <2>2. CASE pc[c] \in Pending
      <3>1. lost' # {}
        BY <1>2, <2>2
      <3> QED BY <3>1 DEF Behind
    <2>3. CASE pc[c] \in Storing
      BY <1>1, <1>2, <2>3 DEF InStep, Behind, Pending, Storing
    <2> QED BY <1>2, <2>1, <2>2, <2>3
  <1>7. stored' => snaps' # <<>>
    BY <1>2 DEF SerialInv
  <1> QED BY <1>3, <1>4, <1>5, <1>6, <1>7, SerialFrom

LEMMA SerialCrash ==
    ASSUME SerialInv, Crash
    PROVE  SerialInv'
  <1>1. /\ alive' = FALSE /\ pc' = [d \in Clients |-> "idle"]
        /\ UNCHANGED <<stored, log, snaps, applied, acked, lost>>
    BY DEF Crash, store, history
  <1>2. \A d \in Clients : pc'[d] = "idle"
    BY <1>1
  <1>3. ~Quiet' /\ (\A d \in Clients : InStep(d)') /\ OneBusy'
    BY <1>1, <1>2 DEF Quiet, InStep, OneBusy, Pending, Storing
  <1> QED BY <1>1, <1>3 DEF SerialInv, Rows, Numbered, Settled, Ids

LEMMA SerialNext ==
    ASSUME ServiceInv, SerialInv, Serial
    PROVE  ServiceInv' /\ SerialInv'
  <1>1. ServiceNext /\ \E c \in Clients : \A d \in Clients \ {c} : pc'[d] = "idle"
    BY DEF Serial
  <1>2. ServiceInv'
    BY <1>1, ServiceNextInv
  <1>3. OneBusy'
    BY <1>1 DEF OneBusy
  <1>4. ASSUME NEW c \in Clients, NewHand(c) \/ Act(c) \/ Decide(c) \/ Handle(c)
        PROVE  SerialInv'
    BY <1>2, <1>3, <1>4, SerialStarts, SerialReads, SerialApply, SerialLogs, SerialAnswers,
       SerialRaises DEF Handle
  <1> QED BY <1>1, <1>2, <1>4, SerialCrash DEF ServiceNext

LEMMA SerialInit == ASSUME ServiceInit PROVE SerialInv
  <1>1. /\ alive = FALSE /\ stored = FALSE /\ log = <<>> /\ snaps = <<>>
        /\ pc = [c \in Clients |-> "idle"] /\ applied = <<>> /\ acked = {}
    BY DEF ServiceInit
  <1>2. DOMAIN log = {} /\ DOMAIN snaps = {} /\ DOMAIN applied = {}
    BY <1>1
  <1> QED BY <1>1, <1>2 DEF SerialInv, OneBusy, Rows, Numbered, Quiet, InStep, Pending, Storing

-----------------------------------------------------------------------------
(* Theorems on the loads.                                                  *)

(* Each load is a way in which the service may behave.                     *)
THEOREM LoadIsService == LoadSpec => ServiceSpec
  <1>1. LoadInit => ServiceInit
    BY DEF LoadInit
  <1>2. [LoadNext]_loadVars => [ServiceNext]_svars
    BY DEF LoadNext, Serial, Parallel, loadVars
  <1> QED BY <1>1, <1>2, PTL DEF LoadSpec, ServiceSpec

LoadInv == ServiceInv /\ (load = "serial" => SerialInv)

(* And with one request at a time the store keeps step.                    *)
THEOREM LoadInvariant == LoadSpec => []LoadInv
  <1>1. LoadInit => LoadInv
    BY ServiceInitInv, SerialInit DEF LoadInit, LoadInv
  <1>2. ASSUME LoadInv, [LoadNext]_loadVars PROVE LoadInv'
    <2>1. CASE Serial /\ UNCHANGED load
      BY <1>2, <2>1, SerialNext DEF LoadInv, Serial
    <2>2. CASE Parallel /\ UNCHANGED load
      BY <1>2, <2>2, ServiceNextInv DEF LoadInv, Parallel
    <2>3. CASE UNCHANGED loadVars
      <3>1. ServiceInv'
        BY <1>2, <2>3, ServiceNextInv DEF LoadInv, loadVars
      <3> QED BY <1>2, <2>3, <3>1 DEF LoadInv, loadVars, svars, SerialInv, OneBusy, Rows,
                                      Numbered, Settled, Ids, Behind, Quiet, InStep, Called
    <2> QED BY <1>2, <2>1, <2>2, <2>3 DEF LoadNext
  <1> QED BY <1>1, <1>2, PTL DEF LoadSpec

(* The latest snapshot is the last one stored.                             *)
LEMMA LatestIsLast ==
    ASSUME ServiceInv, Numbered(snaps), snaps # <<>>
    PROVE  LatestSnapshot = snaps[Len(snaps)] /\ Len(snaps) \in DOMAIN snaps
  <1> DEFINE L == Len(snaps)
             Latest(row) == \E i \in DOMAIN snaps :
                                /\ snaps[i] = row
                                /\ \A j \in DOMAIN snaps :
                                       \/ snaps[j].order < row.order
                                       \/ snaps[j].order = row.order /\ j <= i
  <1>1. L \in Nat \ {0} /\ DOMAIN snaps = 1 .. L /\ L \in DOMAIN snaps
    BY Lengths, EmptySeq DEF ServiceInv, ServiceState
  <1>2. \A i \in 1 .. L : snaps[i].order = i - 1
    BY <1>1 DEF Numbered
  <1> HIDE DEF L
  <1>3. Latest(snaps[L]) /\ snaps[L] \in ToSet(snaps)
    BY <1>1, <1>2 DEF ToSet
  <1>4. ASSUME NEW row, Latest(row) PROVE row = snaps[L]
    <2>1. PICK i \in 1 .. L : /\ snaps[i] = row
                              /\ \A j \in 1 .. L : \/ snaps[j].order < row.order
                                                   \/ snaps[j].order = row.order /\ j <= i
      BY <1>1, <1>4
    <2>2. L - 1 <= i - 1
      BY <1>1, <1>2, <2>1
    <2> QED BY <1>1, <2>1, <2>2
  <1> HIDE DEF Latest
  <1>5. LatestSnapshot = CHOOSE row \in ToSet(snaps) : Latest(row)
    BY DEF LatestSnapshot, Latest
  <1> QED BY <1>1, <1>3, <1>4, <1>5 DEF L

(* With one request at a time, whatever the store refuses and wherever the *)
(* process dies, the store is in order: the log is what was applied, with  *)
(* nothing missing but the refused rows and perhaps the last, and the      *)
(* snapshot served is behind by no answered action.                        *)
THEOREM SerialStoreOrdered == LoadSpec => []OneAtATime
  <1>1. ASSUME ServiceInv, SerialInv PROVE StoreInOrder
    <2>1. Rows
      BY <1>1 DEF SerialInv
    <2>2. StrictOrder
      BY <1>1, <2>1, Lengths DEF StrictOrder, Rows, Numbered
    <2>3. ASSUME stored PROVE \A n \in acked : LatestSnapshot.upto >= n
      <3>1. snaps # <<>> /\ LatestSnapshot = snaps[Len(snaps)] /\ Len(snaps) \in DOMAIN snaps
        BY <1>1, <2>1, <2>3, LatestIsLast DEF SerialInv, Rows
      <3>2. snaps[Len(snaps)] \in Snapshot
        BY <1>1, <3>1, ElementOfSeq DEF ServiceInv, ServiceState
      <3>3. snaps[Len(snaps)].upto \in Nat /\ acked \subseteq Nat
        BY <1>1, <3>2, Lengths DEF Snapshot, ServiceInv, Books
      <3>4. \A n \in acked : n <= snaps[Len(snaps)].upto
        BY <2>1, <3>1 DEF Rows
      <3> QED BY <3>1, <3>3, <3>4
    <2> QED BY <2>1, <2>2, <2>3 DEF StoreInOrder, Rows, Settled
  <1>2. LoadInv => OneAtATime
    BY <1>1 DEF LoadInv, OneAtATime
  <1> QED BY <1>2, LoadInvariant, PTL

-----------------------------------------------------------------------------
(* One request at a time: what the log tells.                              *)

Rebuilt(rows, h) == ReplayRows(FreshHand, rows, deck) = RunAt(h)

(* A snapshot is the replay of the rows up to it, if none was refused.     *)
Told(rows, snap) ==
    (\A n \in lost : n > snap.upto) =>
        snap.upto \in 0 .. Len(rows) /\ Rebuilt(SubSeq(rows, 1, snap.upto), snap.hand)

(* If no row was refused the log rebuilds the hand, or will with the row   *)
(* still to be stored; the snapshots are told by the log, and the one a    *)
(* request is about to store is the hand.                                  *)
HistoryInv ==
    /\ lost = {} /\ Len(log) = Len(applied) => Rebuilt(log, hand)
    /\ lost = {} /\ Len(log) # Len(applied) =>
          ReplayRow(ReplayRows(FreshHand, log, deck), deck, applied[Len(applied)]) = RunAt(hand)
    /\ \A i \in DOMAIN snaps : Told(log, snaps[i])
    /\ \A c \in Clients :
          pc[c] \in {"select_snapshot", "insert_snapshot"} => req[c].hand = hand

(* Rows that are numbered as they were stored are read back so.            *)
LEMMA NumberedInOrder ==
    ASSUME NEW S, NEW rows \in Seq(S), Numbered(rows)
    PROVE  InOrder(rows) = rows
  <1>1. Len(rows) \in Nat /\ DOMAIN rows = 1 .. Len(rows) /\ rows = [i \in DOMAIN rows |-> rows[i]]
    BY LenProperties
  <1>2. ASSUME NEW i \in DOMAIN rows PROVE Cardinality(UpTo(rows, i)) = i
    <2>1. UpTo(rows, i) = 1 .. i
      BY <1>1 DEF UpTo, Numbered
    <2>2. i \in Int /\ 1 \in Int /\ i >= 1
      BY <1>1
    <2>3. Cardinality(1 .. i) = i
      BY <2>2, FS_Interval
    <2> QED BY <2>1, <2>3
  <1>3. ASSUME NEW n \in DOMAIN rows
        PROVE  (CHOOSE i \in DOMAIN rows : Cardinality(UpTo(rows, i)) = n) = n
    BY <1>2
  <1> QED BY <1>1, <1>3, Zenon DEF InOrder

(* What the rows stored so far tell is not changed by a row more.          *)
LEMMA FirstRows ==
    ASSUME NEW S, NEW rows \in Seq(S), NEW n \in 0 .. Len(rows)
    PROVE  /\ SubSeq(rows, 1, n) \in Seq(S)
           /\ Numbered(rows) => Numbered(SubSeq(rows, 1, n))
           /\ \A e \in S : SubSeq(Append(rows, e), 1, n) = SubSeq(rows, 1, n)
  <1>1. Len(rows) \in Nat /\ DOMAIN rows = 1 .. Len(rows) /\ \A i \in 1 .. Len(rows) : rows[i] \in S
    BY LenProperties
  <1>2. n \in Int /\ n >= 0 /\ \A i \in 1 .. n : i \in 1 .. Len(rows) /\ 1 + i - 1 = i
    BY <1>1
  <1>3. ASSUME NEW more, \A i \in 1 .. n : more[i] = rows[i]
        PROVE  /\ SubSeq(more, 1, n) \in Seq(S) /\ Len(SubSeq(more, 1, n)) = n
               /\ \A i \in 1 .. n : SubSeq(more, 1, n)[i] = rows[i]
    <2>1. \A i \in 1 .. n : more[i] \in S
      BY <1>1, <1>2, <1>3
    <2>2. /\ SubSeq(more, 1, n) \in Seq(S)
          /\ Len(SubSeq(more, 1, n)) = IF 1 <= n THEN n - 1 + 1 ELSE 0
          /\ \A i \in 1 .. n - 1 + 1 : SubSeq(more, 1, n)[i] = more[1 + i - 1]
      BY <1>2, <2>1, SubSeqProperties
    <2>3. n - 1 + 1 = n /\ (~(1 <= n) => n = 0)
      BY <1>2
    <2> QED BY <1>2, <1>3, <2>2, <2>3
  <1>4. /\ SubSeq(rows, 1, n) \in Seq(S) /\ Len(SubSeq(rows, 1, n)) = n
        /\ \A i \in 1 .. n : SubSeq(rows, 1, n)[i] = rows[i]
    BY <1>3
  <1>5. Numbered(rows) => Numbered(SubSeq(rows, 1, n))
    <2>1. DOMAIN SubSeq(rows, 1, n) = 1 .. n
      BY <1>4, LenProperties
    <2> QED BY <1>1, <1>2, <1>4, <2>1 DEF Numbered
  <1>6. ASSUME NEW e \in S PROVE SubSeq(Append(rows, e), 1, n) = SubSeq(rows, 1, n)
    <2>1. \A i \in 1 .. n : Append(rows, e)[i] = rows[i]
      BY <1>2, AppendProperties
    <2>2. /\ SubSeq(Append(rows, e), 1, n) \in Seq(S) /\ Len(SubSeq(Append(rows, e), 1, n)) = n
          /\ \A i \in 1 .. n : SubSeq(Append(rows, e), 1, n)[i] = rows[i]
      BY <1>3, <2>1
    <2> QED BY <1>4, <2>2, SeqEqual
  <1> QED BY <1>4, <1>5, <1>6

(* A step that leaves the hand and the rows alone.                         *)
LEMMA HistoryKept ==
    ASSUME HistoryInv, UNCHANGED <<hand, initial_stacks, deck, log, snaps, applied>>,
           lost \subseteq lost',
           \A c \in Clients :
               pc'[c] \in {"select_snapshot", "insert_snapshot"} => req'[c].hand = hand
    PROVE  HistoryInv'
  <1>1. lost' = {} => lost = {}
    OBVIOUS
  <1>2. \A i \in DOMAIN snaps' : Told(log, snaps[i])'
    BY DEF HistoryInv, Told, Rebuilt, FreshHand
  <1> QED BY <1>1, <1>2 DEF HistoryInv, Rebuilt, FreshHand

(* The hand is dealt: nothing is stored yet, or its first snapshot is.     *)
LEMMA HistoryStarts ==
    ASSUME ServiceInv, NEW c \in Clients, OneBusy', HistoryInv,
           NewHand(c) \/ CreateHand(c)
    PROVE  HistoryInv'
  <1>1. CASE NewHand(c)
    <2>1. /\ log' = <<>> /\ applied' = <<>> /\ snaps' = <<>>
          /\ \A d \in Clients : pc[d] = "idle" /\ pc'[d] \in {"idle", "create_hand"}
      BY <1>1 DEF NewHand, Goto, store, history, ServiceInv, ServiceState, Stages
    <2>2. hand' = FreshHand'
      BY <1>1, StartsAtButton DEF NewHand, FreshHand
    <2>3. Rebuilt(log, hand)'
      BY <2>1, <2>2, ReplayNothing DEF Rebuilt
    <2> QED BY <2>1, <2>3 DEF HistoryInv
  <1>2. CASE CreateHand(c)
    <2> DEFINE first == [order |-> 0, hand |-> hand, upto |-> 0]
    <2>1. /\ log = <<>> /\ applied = <<>> /\ lost = {} /\ snaps' = <<first>>
          /\ UNCHANGED <<hand, initial_stacks, deck, log, applied, lost>>
          /\ \A d \in Clients : pc'[d] \in {"idle", "create_hand"}
      BY <1>2 DEF CreateHand, Goto, history, ServiceInv, ServiceState, Stages
    <2>2. first.hand = hand /\ first.upto = 0
      OBVIOUS
    <2> HIDE DEF first
    <2>3. DOMAIN snaps' = {1} /\ snaps'[1] = first
      BY <2>1
    <2>4. FreshHand' = FreshHand /\ Rebuilt(log, hand)
      BY <2>1 DEF HistoryInv, FreshHand
    <2>5. SubSeq(log', 1, 0) = log /\ Len(log') = 0
      BY <2>1, SubSeqEmpty
    <2>6. snaps'[1].hand = hand' /\ snaps'[1].upto = 0
      BY <2>1, <2>2, <2>3
    <2>7. Rebuilt(log, hand)'
      BY <2>1, <2>4 DEF Rebuilt
    <2>8. Told(log, snaps[1])'
      <3>1. SubSeq(log', 1, snaps'[1].upto) = log' /\ snaps'[1].upto \in 0 .. Len(log')
        BY <2>1, <2>5, <2>6
      <3> QED BY <2>6, <2>7, <3>1 DEF Told, Rebuilt
    <2> QED BY <2>1, <2>3, <2>7, <2>8 DEF HistoryInv
  <1> QED BY <1>1, <1>2

(* Steps that read what the next ones store; a snapshot is taken of the    *)
(* hand as it is.                                                          *)
LEMMA HistoryReads ==
    ASSUME ServiceInv, SerialInv, HistoryInv, OneBusy', NEW c \in Clients,
           Act(c) \/ Decide(c) \/ ReadSeat(c) \/ SelectOrder(c) \/ TakeSnapshot(c)
           \/ SelectSnapshot(c)
    PROVE  HistoryInv'
  <1>1. UNCHANGED <<hand, initial_stacks, deck, log, snaps, applied, lost>>
    BY DEF Act, Decide, ReadSeat, SelectOrder, TakeSnapshot, SelectSnapshot, store, history
  <1>2. PICK l \in {"apply", "read_seat", "insert_action", "select_snapshot", "insert_snapshot"} :
            pc' = [pc EXCEPT ![c] = l]
    BY DEF Act, Decide, ReadSeat, SelectOrder, TakeSnapshot, SelectSnapshot, Goto
  <1>3. \A d \in Clients \ {c} : pc'[d] = "idle"
    BY <1>2 DEF OneBusy, ServiceInv, ServiceState
  <1>4. ASSUME pc'[c] \in {"select_snapshot", "insert_snapshot"} PROVE req'[c].hand = hand
    <2>1. TakeSnapshot(c) \/ SelectSnapshot(c)
      BY <1>4 DEF Act, Decide, ReadSeat, SelectOrder, Goto, ServiceInv, ServiceState
    <2>2. CASE TakeSnapshot(c)
      BY <2>2 DEF TakeSnapshot, ServiceInv, ServiceState
    <2>3. CASE SelectSnapshot(c)
      <3>1. req[c].hand = hand
        BY <2>3 DEF SelectSnapshot, HistoryInv
      <3> QED BY <2>3, <3>1 DEF SelectSnapshot, ServiceInv, ServiceState
    <2> QED BY <2>1, <2>2, <2>3
  <1>5. \A d \in Clients :
            pc'[d] \in {"select_snapshot", "insert_snapshot"} => req'[d].hand = hand
    BY <1>3, <1>4
  <1> QED BY <1>1, <1>5, HistoryKept

(* A failure of the store leaves the hand and the rows as they are.        *)
LEMMA HistoryRaises ==
    ASSUME ServiceInv, SerialInv, HistoryInv, OneBusy', NEW c \in Clients, StoreRaises(c)
    PROVE  HistoryInv'
  <1>1. UNCHANGED <<hand, initial_stacks, deck, log, snaps, applied>> /\ lost \subseteq lost'
    BY DEF StoreRaises, store
  <1>2. pc' = [pc EXCEPT ![c] = "idle"] /\ pc[c] # "idle"
    BY DEF StoreRaises, Goto
  <1>3. \A d \in Clients : pc'[d] = "idle"
    BY <1>2 DEF SerialInv, OneBusy, ServiceInv, ServiceState
  <1> QED BY <1>1, <1>3, HistoryKept

(* An accepted action takes the hand one row further than the log.         *)
LEMMA HistoryApplies ==
    ASSUME ServiceInv, SerialInv, HistoryInv, OneBusy', NEW c \in Clients, Apply(c)
    PROVE  HistoryInv'
  <1>1. /\ pc[c] = "apply" /\ Behind(0)
        /\ UNCHANGED <<initial_stacks, deck, log, snaps, lost>>
    BY DEF Apply, store, SerialInv, InStep
  <1>2. \A d \in Clients : pc'[d] \in {"idle", "select_order"}
    BY <1>1 DEF Apply, Goto, OneBusy, ServiceInv, ServiceState, SerialInv
  <1>3. CASE ~Accepts(hand, req[c].type, req[c].amount)
    <2>1. UNCHANGED <<hand, applied>>
      BY <1>3 DEF Apply
    <2> QED BY <1>1, <1>2, <2>1, HistoryKept
  <1>4. CASE Accepts(hand, req[c].type, req[c].amount)
    <2> DEFINE entry == [type |-> req[c].type, amount |-> req[c].amount,
                         seat |-> hand.acting_seat]
    <2>1. /\ applied' = Append(applied, entry)
          /\ hand' = ApplyAction(hand, deck, req[c].type, req[c].amount)
      BY <1>4 DEF Apply
    <2>2. entry.type = req[c].type /\ entry.amount = req[c].amount
      OBVIOUS
    <2>3. applied \in Seq(Action \cup {entry})
      BY SeqMonotonic DEF ServiceInv, ServiceState
    <2> HIDE DEF entry
    <2>4. Len(applied) \in Nat /\ Len(applied') = Len(applied) + 1 /\ applied'[Len(applied')] = entry
      BY <2>1, <2>3, Appended
    <2>5. lost = {} => Len(log) = Len(applied) /\ Len(log') # Len(applied')
      <3>1. /\ Len(log) \in Nat /\ Len(log') = Len(log)
            /\ lost = {} => Len(log) = Len(applied) - 0
        BY <1>1, Lengths DEF Behind
      <3> QED BY <2>4, <3>1
    <2>6. hand'.button = hand.button
      BY <1>4, <2>1, ButtonStays DEF Accepts, ActionTypes
    <2>7. FreshHand' = FreshHand
      BY <1>1, <2>6 DEF FreshHand
    <2>8. ReplayRow(RunAt(hand), deck, entry) = RunAt(hand')
      BY <1>4, <2>1, <2>2, ReplayAccepted
    <2>9. ASSUME lost = {}
          PROVE  ReplayRow(ReplayRows(FreshHand', log', deck'), deck', applied'[Len(applied')])
                 = RunAt(hand')
      BY <1>1, <2>4, <2>5, <2>7, <2>8, <2>9 DEF HistoryInv, Rebuilt
    <2>10. \A i \in DOMAIN snaps' : Told(log, snaps[i])'
      BY <1>1, <2>7 DEF HistoryInv, Told, Rebuilt
    <2> QED BY <1>1, <1>2, <2>5, <2>9, <2>10 DEF HistoryInv
  <1> QED BY <1>3, <1>4

(* Its row takes the log as far as the hand.                               *)
LEMMA HistoryLogs ==
    ASSUME ServiceInv, SerialInv, HistoryInv, OneBusy', NEW c \in Clients, InsertAction(c)
    PROVE  HistoryInv'
  <1>1. /\ pc[c] = "insert_action" /\ log' = Append(log, req[c])
        /\ UNCHANGED <<hand, initial_stacks, deck, snaps, applied, lost>>
        /\ \A d \in Clients : pc'[d] \in {"idle", "snapshot"}
    BY DEF InsertAction, history, Goto, OneBusy, ServiceInv, ServiceState, SerialInv
  <1>2. /\ req[c] \in Locals /\ Behind(1) /\ Called(c) = applied[Len(applied)]
    BY <1>1 DEF ServiceInv, RequestOK, SerialInv, InStep, Pending
  <1>3. log \in Seq(Locals) /\ FreshHand' = FreshHand
    BY <1>1 DEF ServiceInv, ServiceState, FreshHand
  <1>4. /\ Len(log) \in Nat /\ Len(log') = Len(log) + 1
    BY <1>1, <1>2, <1>3, Appended
  <1>5. lost = {} => Len(log) # Len(applied) /\ Len(log') = Len(applied')
    <2>1. /\ Len(applied) \in Nat /\ Len(applied') = Len(applied)
          /\ lost = {} => Len(log) = Len(applied) - 1
      BY <1>1, <1>2, Lengths DEF Behind
    <2> QED BY <1>4, <2>1
  <1>6. ASSUME lost = {} PROVE Rebuilt(log, hand)'
    <2> DEFINE run == ReplayRows(FreshHand, log, deck)
    <2>1. ReplayRows(FreshHand, log', deck) = ReplayRow(run, deck, req[c])
      BY <1>1, <1>2, <1>3, ReplayOneMore
    <2>2. ReplayRow(run, deck, applied[Len(applied)]) = RunAt(hand)
      BY <1>5, <1>6 DEF HistoryInv
    <2> HIDE DEF run
    <2>3. /\ applied[Len(applied)].type = req[c].type
          /\ applied[Len(applied)].amount = req[c].amount
      BY <1>2 DEF Called
    <2>4. ReplayRow(run, deck, req[c]) = RunAt(hand)
      BY <2>2, <2>3 DEF ReplayRow
    <2> QED BY <1>1, <1>3, <2>1, <2>4 DEF Rebuilt
  <1>7. ASSUME NEW i \in DOMAIN snaps PROVE Told(log, snaps[i])'
    <2> DEFINE upto == snaps[i].upto
    <2> SUFFICES ASSUME \A n \in lost : n > upto
                 PROVE  upto \in 0 .. Len(log') /\ Rebuilt(SubSeq(log, 1, upto), snaps[i].hand)'
      BY <1>1 DEF Told
    <2>1. upto \in 0 .. Len(log) /\ Rebuilt(SubSeq(log, 1, upto), snaps[i].hand)
      BY DEF HistoryInv, Told
    <2>2. SubSeq(log', 1, upto) = SubSeq(log, 1, upto)
      BY <1>1, <1>2, <1>3, <2>1, FirstRows
    <2>3. upto' = upto
      BY <1>1
    <2> HIDE DEF upto
    <2>4. upto \in 0 .. Len(log')
      BY <1>4, <2>1
    <2> QED BY <1>1, <1>3, <2>1, <2>2, <2>3, <2>4 DEF Rebuilt
  <1> QED BY <1>1, <1>5, <1>6, <1>7 DEF HistoryInv

(* The snapshot stored is the replay of the whole log, unless a row is     *)
(* missing.                                                                *)
LEMMA HistoryAnswers ==
    ASSUME ServiceInv, SerialInv, HistoryInv, OneBusy', NEW c \in Clients, InsertSnapshot(c)
    PROVE  HistoryInv'
  <1> DEFINE row == [order |-> req[c].order, hand |-> req[c].hand, upto |-> req[c].upto]
  <1>1. /\ pc[c] = "insert_snapshot" /\ snaps' = Append(snaps, row)
        /\ UNCHANGED <<hand, initial_stacks, deck, log, applied, lost>>
        /\ \A d \in Clients : pc'[d] = "idle"
    BY DEF InsertSnapshot, Goto, OneBusy, ServiceInv, ServiceState, SerialInv
  <1>2. Behind(0) /\ row.hand = hand /\ row.upto = Len(applied)
    BY <1>1 DEF SerialInv, InStep, Storing, HistoryInv
  <1>3. snaps \in Seq(Snapshot \cup {row})
    BY SeqMonotonic DEF ServiceInv, ServiceState
  <1> HIDE DEF row
  <1>4. /\ Len(snaps) \in Nat /\ DOMAIN snaps' = DOMAIN snaps \cup {Len(snaps) + 1}
        /\ \A i \in DOMAIN snaps : snaps'[i] = snaps[i]
        /\ snaps'[Len(snaps) + 1] = row
    BY <1>1, <1>3, Appended
  <1>5. FreshHand' = FreshHand
    BY <1>1 DEF FreshHand
  <1>7. (\A n \in lost : n > row.upto) => lost = {}
    <2>1. lost \subseteq DOMAIN applied
      BY DEF ServiceInv, Books
    <2> QED BY <1>2, <2>1, Lengths
  <1>8. ASSUME lost = {}
        PROVE  row.upto \in 0 .. Len(log) /\ Rebuilt(SubSeq(log, 1, row.upto), row.hand)
    <2>1. Len(log) = Len(applied) - 0 /\ Len(applied) \in Nat
      BY <1>2, <1>8, Lengths DEF Behind
    <2>2. row.upto = Len(log) /\ Len(log) = Len(applied) /\ row.upto \in 0 .. Len(log)
      BY <1>2, <2>1
    <2>3. SubSeq(log, 1, row.upto) = log
      BY <2>2, SubSeqFull DEF ServiceInv, ServiceState
    <2>4. Rebuilt(log, hand)
      BY <1>8, <2>2 DEF HistoryInv
    <2> QED BY <1>2, <2>2, <2>3, <2>4
  <1>9. Told(log, row)
    BY <1>7, <1>8 DEF Told
  <1>10. \A i \in DOMAIN snaps' : Told(log, snaps[i])'
    <2> SUFFICES ASSUME NEW i \in DOMAIN snaps' PROVE Told(log, snaps[i])'
      OBVIOUS
    <2>1. Told(log, snaps'[i])
      BY <1>4, <1>9 DEF HistoryInv
    <2> QED BY <1>1, <1>5, <2>1 DEF Told, Rebuilt
  <1> QED BY <1>1, <1>5, <1>10 DEF HistoryInv, Rebuilt

LEMMA HistoryNext ==
    ASSUME ServiceInv, SerialInv, HistoryInv, Serial
    PROVE  HistoryInv'
  <1>1. ServiceNext /\ OneBusy'
    BY DEF Serial, OneBusy
  <1>2. ASSUME NEW c \in Clients, NewHand(c) \/ Act(c) \/ Decide(c) \/ Handle(c)
        PROVE  HistoryInv'
    BY <1>1, <1>2, HistoryStarts, HistoryReads, HistoryApplies, HistoryLogs, HistoryAnswers,
       HistoryRaises DEF Handle
  <1>3. CASE Crash
    <2>1. UNCHANGED <<hand, initial_stacks, deck, log, snaps, applied, lost>>
          /\ \A d \in Clients : pc'[d] = "idle"
      BY <1>3 DEF Crash, store, history
    <2> QED BY <2>1, HistoryKept
  <1> QED BY <1>1, <1>2, <1>3 DEF ServiceNext

LEMMA HistoryInit == ASSUME ServiceInit PROVE HistoryInv
  <1>1. /\ hand = StartNewHand(initial_stacks, 0) /\ log = <<>> /\ snaps = <<>>
        /\ applied = <<>> /\ pc = [c \in Clients |-> "idle"]
    BY DEF ServiceInit
  <1>2. hand = FreshHand
    BY <1>1, StartsAtButton DEF FreshHand
  <1>3. Rebuilt(log, hand)
    BY <1>1, <1>2, ReplayNothing DEF Rebuilt
  <1> QED BY <1>1, <1>3 DEF HistoryInv

(* With one request at a time the log and the snapshots tell one history:  *)
(* unless the store refused a row, a replay of a seeded hand rebuilds the  *)
(* live hand when no request is under way, and never fails; and at every   *)
(* moment, also after a crash, the latest snapshot is the replay of the    *)
(* log up to it, if no row up to there was refused.                        *)
THEOREM LogAndSnapshotAgree == Seeded => (LoadSpec => []OneHistory)
  <1> SUFFICES ASSUME Seeded PROVE LoadSpec => []OneHistory
    OBVIOUS
  <1>1. LoadInit => (load = "serial" => HistoryInv)
    BY HistoryInit DEF LoadInit
  <1>2. LoadInv /\ (load = "serial" => HistoryInv) /\ [LoadNext]_loadVars
        => (load = "serial" => HistoryInv)'
    <2> SUFFICES ASSUME LoadInv, load = "serial" => HistoryInv, [LoadNext]_loadVars,
                        load' = "serial"
                 PROVE  HistoryInv'
      OBVIOUS
    <2>1. CASE Serial /\ UNCHANGED load
      BY <2>1, HistoryNext DEF LoadInv, Serial
    <2>2. CASE UNCHANGED loadVars
      <3>1. UNCHANGED <<hand, initial_stacks, deck, log, snaps, applied, lost>>
            /\ pc' = pc /\ req' = req /\ load' = load
        BY <2>2 DEF loadVars, svars
      <3>2. \A c \in Clients : pc'[c] \in {"select_snapshot", "insert_snapshot"}
                               => req'[c].hand = hand
        BY <3>1 DEF HistoryInv
      <3> QED BY <3>1, <3>2, HistoryKept
    <2> QED BY <2>1, <2>2 DEF LoadNext, Parallel
  <1>3. ASSUME LoadInv, HistoryInv, load = "serial", lost = {} PROVE ReplayFaithful
    <2>1. ServiceInv /\ SerialInv /\ Rows /\ log \in Seq(Locals)
      BY <1>3 DEF LoadInv, SerialInv, ServiceInv, ServiceState
    <2>2. InOrder(log) = log
      BY <2>1, NumberedInOrder DEF Rows
    <2>3. Quiet => Len(log) = Len(applied) - 0
      BY <1>3, <2>1 DEF SerialInv, Behind
    <2>4. Quiet => Len(log) = Len(applied)
      BY <2>1, <2>3, Lengths
    <2>5. Quiet => Rebuilt(log, hand)
      BY <1>3, <2>4 DEF HistoryInv
    <2> QED BY <2>2, <2>5 DEF ReplayFaithful, Replay, Rebuilt, RunAt
  <1>4. ASSUME LoadInv, HistoryInv, load = "serial" PROVE SnapshotReplays
    <2>1. ServiceInv /\ SerialInv /\ Rows /\ log \in Seq(Locals)
      BY <1>3, <1>4 DEF LoadInv, SerialInv, ServiceInv, ServiceState
    <2> DEFINE last == LatestSnapshot
    <2> SUFFICES ASSUME stored, \A n \in lost : n > last.upto
                 PROVE  Replay(SubSeq(log, 1, last.upto), deck)
                        = [hand |-> last.hand, ok |-> TRUE]
      BY DEF SnapshotReplays
    <2>2. last = snaps[Len(snaps)] /\ Len(snaps) \in DOMAIN snaps
      BY <2>1, LatestIsLast DEF SerialInv, Rows
    <2> HIDE DEF last
    <2>3. last.upto \in 0 .. Len(log) /\ Rebuilt(SubSeq(log, 1, last.upto), last.hand)
      BY <1>4, <2>2 DEF HistoryInv, Told
    <2>4. /\ SubSeq(log, 1, last.upto) \in Seq(Locals) /\ Numbered(SubSeq(log, 1, last.upto))
      BY <2>1, <2>3, FirstRows DEF Rows
    <2>5. InOrder(SubSeq(log, 1, last.upto)) = SubSeq(log, 1, last.upto)
      BY <2>4, NumberedInOrder
    <2> QED BY <2>3, <2>5 DEF Replay, Rebuilt, RunAt
  <1>5. LoadInv /\ (load = "serial" => HistoryInv) => OneHistory
    BY <1>3, <1>4 DEF OneHistory
  <1> QED BY <1>1, <1>2, <1>5, LoadInvariant, PTL DEF LoadSpec
=============================================================================
