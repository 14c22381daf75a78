--------------------------- MODULE MCHandService ----------------------------
(***************************************************************************)
(* A heads-up hand with short stacks, so that the requests below reach     *)
(* every street and every end of a hand, under one of two loads: serial,   *)
(* one request at a time with every action, or parallel, two at a time     *)
(* that fold, call and push all in.                                        *)
(***************************************************************************)
EXTENDS HandService

VARIABLE load

Stacks4 == [s \in Seats |-> 4]
ShortStacks == {Stacks4, [s \in Seats |-> IF s = 0 THEN 5 ELSE 3]}
ServiceRankings == {[s \in Seats |-> 0], [s \in Seats |-> s]}

Body(type, amount) == [type |-> type, amount |-> amount]
AllBodies == {Body("fold", 0), Body("check", 0), Body("call", 0), Body("bet", 2),
              Body("raise", 4), Body("all_in", 0)}
FewTypes == {"none", "fold", "call", "all_in"}

loadVars == <<svars, load>>

LoadInit == ServiceInit /\ load \in {"serial", "parallel"}

(* Requests that the store failed after their action was accepted: while   *)
(* the process lives one in a hand, of one button, deck and pair of stacks.*)
MaxFailed == 1
FailedRequests == {n \in DOMAIN applied \ acked : \A c \in Clients : req[c].id # n}
OneDeck == initial_stacks = Stacks4 /\ deck = [s \in Seats |-> s]
FewFailures ==
    alive /\ FailedRequests # {} =>
        Cardinality(FailedRequests) <= MaxFailed /\ OneDeck /\ hand.button = 0

(* What keeps the state space of two requests at a time small.             *)
Few == OneDeck /\ \A c \in Clients : pc[c] = "apply" => req[c].type \in FewTypes

Serial == /\ load = "serial" /\ ServiceNext /\ FewFailures'
          /\ \E c \in Clients : \A d \in Clients \ {c} : pc'[d] = "idle"
Parallel == load = "parallel" /\ ServiceNext /\ Few' /\ FewFailures'

LoadNext == (Serial \/ Parallel) /\ UNCHANGED load

LoadSpec == LoadInit /\ [][LoadNext]_loadVars

(* With one request at a time, whatever the store refuses and wherever the *)
(* process dies, what it leaves is in order.                               *)
OneAtATime == load = "serial" => StoreInOrder

(* And then the log and the snapshot tell the same hand: unless the store  *)
(* refused the row of an action, a replay rebuilds the live hand whenever  *)
(* no request is under way; and the latest snapshot is the replay of the   *)
(* log up to it.                                                           *)
OneHistory == load = "serial" => (lost = {} => ReplayFaithful) /\ SnapshotReplays
=============================================================================
