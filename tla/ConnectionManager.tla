-------------------------- MODULE ConnectionManager ---------------------------
(***************************************************************************)
(* The WebSocket manager of apps/api/routers/ws.py, for the connections of *)
(* one hand (the hands of active_connections do not touch each other).     *)
(*                                                                         *)
(* Everything runs on the event loop: what happens between two awaits is   *)
(* one step.  A broadcast iterates over the list object it found.  connect *)
(* appends to that object; disconnect puts a new list in its place and     *)
(* leaves the old one to the broadcasts that iterate over it.  A broadcast *)
(* therefore keeps its list, and `shared` while it is still the manager's. *)
(***************************************************************************)
EXTENDS Integers, Sequences, SequencesExt, FiniteSets

CONSTANTS
    Sockets,
    Broadcasts   \* the broadcasts somebody may start

VARIABLES
    members,     \* active_connections[hand_id]; <<>> when there is no such key
    socket,      \* socket[s]: the step of the handler hand_websocket of s
    gone,        \* sockets whose peer has gone: the next send or receive raises
    cast,        \* cast[b]: the local variables of a broadcast
    got,         \* history: got[b][s], how often b was sent to s
    owed         \* history: owed[b], members at the start of b that have been there since

wsVars == <<members, socket, gone, cast, got, owed>>

Idle == [running |-> FALSE, list |-> <<>>, at |-> 0, failed |-> {}, shared |-> FALSE]

(* The list without the sockets ss, in the same order: its k-th member is  *)
(* the one with k kept positions up to its own.                            *)
Without(list, ss) ==
    LET kept == {i \in DOMAIN list : list[i] \notin ss}
        place(i) == Cardinality({j \in kept : j <= i})
    IN  [k \in 1 .. Cardinality(kept) |-> list[CHOOSE i \in kept : place(i) = k]]

(* A list that is replaced is no longer the manager's.                     *)
Unshare(casts) == [b \in Broadcasts |-> [casts[b] EXCEPT !.shared = FALSE]]

(* disconnect of the sockets ss, one after the other.                      *)
Disconnect(ss, casts) ==
    IF members = <<>> \/ ss = {} THEN members' = members /\ cast' = casts
    ELSE members' = Without(members, ss) /\ cast' = Unshare(casts)

-----------------------------------------------------------------------------
(* hand_websocket                                                          *)

(* connect: accept is awaited, and then the connection is in the list.     *)
Accept(s) ==
    /\ socket[s] = "new"
    /\ socket' = [socket EXCEPT ![s] = "accepting"]
    /\ UNCHANGED <<members, gone, cast, got, owed>>

(* Mutant: a new connection goes first in the list.                        *)
ConnectFirst(s) ==
    /\ socket[s] = "accepting"
    /\ socket' = [socket EXCEPT ![s] = "open"]
    /\ members' = <<s>> \o members
    /\ cast' = [b \in Broadcasts |->
                   IF cast[b].shared THEN [cast[b] EXCEPT !.list = <<s>> \o @] ELSE cast[b]]
    /\ UNCHANGED <<gone, got, owed>>

Connect(s) ==
    /\ socket[s] = "accepting"
    /\ socket' = [socket EXCEPT ![s] = "open"]
    /\ members' = Append(members, s)
    /\ cast' = [b \in Broadcasts |->
                   IF cast[b].shared THEN [cast[b] EXCEPT !.list = Append(@, s)] ELSE cast[b]]
    /\ UNCHANGED <<gone, got, owed>>

(* The peer closes, or the network fails.                                  *)
PeerLeaves(s) ==
    /\ socket[s] = "open" /\ s \notin gone
    /\ gone' = gone \cup {s}
    /\ owed' = [b \in Broadcasts |-> owed[b] \ {s}]
    /\ UNCHANGED <<members, socket, cast, got>>

(* The handler notices on its next receive or send, and disconnects.       *)
ReceiveRaises(s) ==
    /\ socket[s] = "open" /\ s \in gone
    /\ socket' = [socket EXCEPT ![s] = "closed"]
    /\ Disconnect({s}, cast)
    /\ UNCHANGED <<gone, got, owed>>

-----------------------------------------------------------------------------
(* broadcast                                                               *)

(* Without connections it returns at once; otherwise it starts to send.    *)
StartBroadcast(b) ==
    /\ cast[b] = Idle /\ members # <<>> /\ got[b] = [s \in Sockets |-> 0]
    /\ cast' = [cast EXCEPT ![b] = [running |-> TRUE, list |-> members, at |-> 1,
                                    failed |-> {}, shared |-> TRUE]]
    /\ owed' = [owed EXCEPT ![b] = ToSet(members) \ gone]
    /\ UNCHANGED <<members, socket, gone, got>>

(* An awaited send comes back, or raises because the peer has gone; the    *)
(* loop goes on with the list as it is now, and at its end, without        *)
(* another await, what failed is disconnected.                             *)
SendDone(b) ==
    LET c == cast[b]
        s == c.list[c.at]
        failed == IF s \in gone THEN c.failed \cup {s} ELSE c.failed
    IN  /\ c.running
        /\ got' = IF s \in gone THEN got ELSE [got EXCEPT ![b][s] = @ + 1]
        /\ IF c.at < Len(c.list)
           THEN /\ cast' = [cast EXCEPT ![b].at = @ + 1, ![b].failed = failed]
                /\ UNCHANGED members
           ELSE Disconnect(failed, [cast EXCEPT ![b] = Idle])
        /\ UNCHANGED <<socket, gone, owed>>

-----------------------------------------------------------------------------
WsInit ==
    /\ members = <<>> /\ gone = {}
    /\ socket = [s \in Sockets |-> "new"]
    /\ cast = [b \in Broadcasts |-> Idle]
    /\ got = [b \in Broadcasts |-> [s \in Sockets |-> 0]]
    /\ owed = [b \in Broadcasts |-> {}]

WsNext ==
    \/ \E s \in Sockets : Accept(s) \/ Connect(s) \/ PeerLeaves(s) \/ ReceiveRaises(s)
    \/ \E b \in Broadcasts : StartBroadcast(b) \/ SendDone(b)

WsSpec == WsInit /\ [][WsNext]_wsVars

(* The event loop resumes whatever can go on: sends come back, and the     *)
(* handler of a connection whose peer has gone is told so.                 *)
WsFairness ==
    /\ \A b \in Broadcasts : WF_wsVars(SendDone(b))
    /\ \A s \in Sockets : WF_wsVars(ReceiveRaises(s))

-----------------------------------------------------------------------------
(* Properties.                                                             *)

(* A broadcast reaches every connection that was there when it began and   *)
(* has stayed: connections that come and go, and other broadcasts that     *)
(* clean up, make it skip nobody and reach nobody twice.                   *)
ReachesAllOnce ==
    \A b \in Broadcasts, s \in Sockets :
        /\ got[b][s] <= 1
        /\ cast[b] = Idle /\ s \in owed[b] => got[b][s] = 1

(* The list is the connections that are alive, and possibly some that have *)
(* gone and whose handler has not noticed: nobody is in it twice, nobody   *)
(* whose handler is done, and cleaning up after others takes nobody out.   *)
ListIsAlive ==
    /\ \A s \in ToSet(members) : socket[s] = "open"
    /\ IsInjective(members)
    /\ \A s \in Sockets : socket[s] = "open" /\ s \notin gone => s \in ToSet(members)

(* Both together: connections may come and go at any moment of a broadcast *)
(* that awaits its sends.                                                  *)
BroadcastsReach == ReachesAllOnce /\ ListIsAlive

(* Connections that have gone are forgotten, and every broadcast ends.     *)
WsSettles ==
    /\ \A s \in Sockets : s \in gone ~> s \notin ToSet(members)
    /\ \A b \in Broadcasts : cast[b].running ~> ~cast[b].running
=============================================================================
