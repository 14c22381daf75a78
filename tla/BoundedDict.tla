----------------------------- MODULE BoundedDict ------------------------------
(***************************************************************************)
(* BoundedDict of packages/common/bounded_dict.py: a dictionary with a     *)
(* greatest size and a time to live.  Every operation holds the lock from  *)
(* its first to its last step and is one action; get, which calls          *)
(* __getitem__ and turns its KeyError into the default, is GetItem.        *)
(*                                                                         *)
(* Of entries written in the same second the code drops the one that is    *)
(* first in the dictionary; here any of them may go.                       *)
(***************************************************************************)
EXTENDS Monotonic, FiniteSets

CONSTANTS
    Keys,
    Values,
    MaxSize,      \* max_size
    TtlSeconds    \* ttl_seconds

ASSUME SizeAssumption == MaxSize \in Nat \ {0} /\ IsFiniteSet(Keys)
ASSUME TtlAssumption == TtlSeconds \in Nat

VARIABLES
    data,       \* _data: a dictionary from keys to [value, ts]
    answered,   \* the latest read: [key, found, value], or found = FALSE for KeyError
    written,    \* history: written[k], the latest value put at k and when
    deleted     \* history: keys deleted since they were last written

cacheVars == <<now, data, answered, written, deleted>>

NeverWritten == [value |-> 0, ts |-> -1]

Expired(k) == now - data[k].ts > TtlSeconds

(* _evict_expired                                                          *)
Unexpired == {k \in DOMAIN data : ~Expired(k)}

Only(keys) == [k \in keys |-> data[k]]

(* Mutant: the newest entry goes.                                          *)
NewestOf(keys, key) ==
    IF Cardinality(keys) >= MaxSize /\ key \notin keys
    THEN {k \in keys : \A j \in keys : data[j].ts <= data[k].ts} ELSE {}

(* The entries one of which makes room for key.                            *)
OldestOf(keys, key) ==
    IF Cardinality(keys) >= MaxSize /\ key \notin keys
    THEN {k \in keys : \A j \in keys : data[k].ts <= data[j].ts} ELSE {}

SetItem(key, value) ==
    /\ LET out == OldestOf(Unexpired, key)
       IN  \E gone \in IF out = {} THEN {{}} ELSE {{k} : k \in out} :
              data' = [k \in (Unexpired \ gone) \cup {key} |->
                          IF k = key THEN [value |-> value, ts |-> now] ELSE data[k]]
    /\ written' = [written EXCEPT ![key] = [value |-> value, ts |-> now]]
    /\ deleted' = deleted \ {key}
    /\ UNCHANGED <<now, answered>>

(* Mutant: an entry is served whatever its age.                            *)
GetAnyAge(key) ==
    /\ answered' = IF key \in DOMAIN data
                   THEN [key |-> key, found |-> TRUE, value |-> data[key].value]
                   ELSE [key |-> key, found |-> FALSE, value |-> 0]
    /\ UNCHANGED <<now, data, written, deleted>>

(* __getitem__ drops the entry it finds expired.                           *)
GetItem(key) ==
    LET found == key \in Unexpired
    IN  /\ answered' = [key |-> key, found |-> found,
                        value |-> IF found THEN data[key].value ELSE 0]
        /\ data' = IF found THEN data ELSE Only(DOMAIN data \ {key})
        /\ UNCHANGED <<now, written, deleted>>

(* __contains__ drops it too.                                              *)
HasKey(key) ==
    /\ data' = IF key \in Unexpired THEN data ELSE Only(DOMAIN data \ {key})
    /\ UNCHANGED <<now, answered, written, deleted>>

(* __delitem__ raises KeyError for a key that is not there.                *)
DelItem(key) ==
    /\ key \in DOMAIN data
    /\ data' = Only(DOMAIN data \ {key})
    /\ deleted' = deleted \cup {key}
    /\ UNCHANGED <<now, answered, written>>

(* __len__ evicts what has expired before it counts.                       *)
Length ==
    /\ data' = Only(Unexpired)
    /\ UNCHANGED <<now, answered, written, deleted>>

TimePasses == Tick /\ UNCHANGED <<data, answered, written, deleted>>

CacheInit ==
    /\ now = 0
    /\ data = [k \in {} |-> NeverWritten]
    /\ answered = [key |-> CHOOSE k \in Keys : TRUE, found |-> FALSE, value |-> 0]
    /\ written = [k \in Keys |-> NeverWritten]
    /\ deleted = {}

CacheNext ==
    \/ TimePasses \/ Length
    \/ \E k \in Keys : GetItem(k) \/ HasKey(k) \/ DelItem(k)
    \/ \E k \in Keys, v \in Values : SetItem(k, v)

CacheSpec == CacheInit /\ [][CacheNext]_cacheVars

-----------------------------------------------------------------------------
(* Properties.                                                             *)

(* The dictionary holds entries of the past for keys, and never more than  *)
(* max_size of them, whatever has expired or is written over.              *)
CacheTypeOK ==
    /\ DOMAIN data \subseteq Keys
    /\ \A k \in DOMAIN data : data[k].value \in Values /\ data[k].ts \in 0 .. now
    /\ Cardinality(DOMAIN data) <= MaxSize

(* What is stored under a key is the latest value written there, with the  *)
(* time of that write, and the key has not been deleted since.             *)
HoldsLatest == \A k \in DOMAIN data : data[k] = written[k] /\ k \notin deleted

(* Live: written, not deleted since, and within its time to live.          *)
Live(k) == written[k].ts >= 0 /\ k \notin deleted /\ now - written[k].ts <= TtlSeconds

(* A live entry has gone only because max_size other keys were written     *)
(* since: no newer entry was there to be dropped instead, expired entries  *)
(* went first, and writing over a key drops nothing.                       *)
LostOnlyToNewer ==
    \A k \in Keys :
        Live(k) /\ k \notin DOMAIN data =>
            Cardinality({j \in Keys \ {k} : written[j].ts >= written[k].ts}) >= MaxSize

(* A read gives the latest value of a live key, and no value of another.   *)
ServesLive ==
    [][ answered' # answered /\ answered'.found =>
            Live(answered'.key) /\ answered'.value = written[answered'.key].value ]_cacheVars
=============================================================================
