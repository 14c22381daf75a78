------------------------------ MODULE EventStore ------------------------------
(***************************************************************************)
(* The event store of packages/events/store.py: an append-only table with  *)
(* UNIQUE event ids, read back per aggregate.  Each method is one SQL      *)
(* statement that commits by itself.                                       *)
(***************************************************************************)
EXTENDS Integers, Sequences, SequencesExt

CONSTANTS
    EventIds,
    Aggregates,
    Limit          \* the 1000 rows get_events returns at most

ASSUME LimitAssumption == Limit \in Nat

VARIABLES
    domain_events,   \* the table, ORDER BY id
    refused,         \* ids an append was refused for
    replayed         \* the latest replay: [aggregate, events]

eventVars == <<domain_events, refused, replayed>>

(* WHERE aggregate_id = ? ORDER BY id: of[n] is what there is of it in the *)
(* first n rows.                                                           *)
OfAggregate(aggregate) ==
    LET of[n \in 0 .. Len(domain_events)] ==
            IF n = 0 THEN <<>>
            ELSE IF domain_events[n].aggregate = aggregate
            THEN Append(of[n - 1], domain_events[n])
            ELSE of[n - 1]
    IN  of[Len(domain_events)]

(* Mutant: the limit counts the rows of all aggregates.                    *)
LimitFirst(aggregate) ==
    SelectSeq(SubSeq(domain_events, 1, IF Len(domain_events) < Limit THEN Len(domain_events)
                                       ELSE Limit),
              LAMBDA e : e.aggregate = aggregate)

(* SELECT ... LIMIT ?                                                      *)
GetEvents(aggregate) ==
    LET rows == OfAggregate(aggregate)
    IN  SubSeq(rows, 1, IF Len(rows) < Limit THEN Len(rows) ELSE Limit)

(* append: a second event of the same id raises IntegrityError.            *)
AppendEvent(id, aggregate) ==
    /\ IF \A i \in DOMAIN domain_events : domain_events[i].id # id
       THEN /\ domain_events' = Append(domain_events, [id |-> id, aggregate |-> aggregate])
            /\ UNCHANGED refused
       ELSE /\ refused' = refused \cup {id}
            /\ UNCHANGED domain_events
    /\ UNCHANGED replayed

ReplayAggregate(aggregate) ==
    /\ replayed' = [aggregate |-> aggregate, events |-> GetEvents(aggregate)]
    /\ UNCHANGED <<domain_events, refused>>

EventInit ==
    /\ domain_events = <<>> /\ refused = {}
    /\ replayed = [aggregate |-> CHOOSE a \in Aggregates : TRUE, events |-> <<>>]

EventNext ==
    \E aggregate \in Aggregates :
        \/ ReplayAggregate(aggregate)
        \/ \E id \in EventIds : AppendEvent(id, aggregate)

EventSpec == EventInit /\ [][EventNext]_eventVars

-----------------------------------------------------------------------------
(* Properties.                                                             *)

(* A replay is the beginning of what its aggregate has appended, without   *)
(* gaps, repetitions or events of others, and all of it up to the limit:   *)
(* beyond the limit the newest events are missing, and no other ones.      *)
ReplayIsPrefix ==
    [][ replayed' # replayed =>
            LET all == OfAggregate(replayed'.aggregate)
            IN  /\ IsPrefix(replayed'.events, all)
                /\ IsInjective(replayed'.events)
                /\ replayed'.events # all => Len(replayed'.events) = Limit ]_eventVars

(* What replay (store.py:86) says of itself: a replay is all the events of *)
(* its aggregate.  It does not hold: beyond the limit the rest is missing. *)
ReplaysAll ==
    [][ replayed' # replayed =>
            replayed'.events = OfAggregate(replayed'.aggregate) ]_eventVars
=============================================================================
