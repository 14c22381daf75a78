----------------------------- MODULE MCPlatform -------------------------------
(***************************************************************************)
(* The parts of the API process, each by itself: the requests on a hand,   *)
(* and what lives beside it.  `part` says which of them runs, and the      *)
(* others stay as they begin.                                              *)
(***************************************************************************)
EXTENDS MCHandService, RateLimit, BoundedDict, TaskQueue, ConnectionManager, EventStore,
        Migrations

VARIABLE part

Parts == {"hands", "limiter", "cache", "tasks", "sockets", "events", "migrations"}

platformVars ==
    <<part, loadVars, limiterVars, cacheVars, taskVars, wsVars, eventVars, schemaVars>>

PlatformInit ==
    /\ part \in Parts
    /\ LoadInit
    /\ part # "hands" => load = "serial" /\ hand.button = 0
                            /\ initial_stacks = Stacks4 /\ deck = [s \in Seats |-> 0]
    /\ LimiterInit /\ CacheInit /\ TaskInit /\ WsInit /\ EventInit /\ MigrationInit
    /\ part # "migrations" => schema = {}

Hands == part = "hands" /\ LoadNext
         /\ UNCHANGED <<part, limiterVars, cacheVars, taskVars, wsVars, eventVars, schemaVars>>
Limiter == part = "limiter" /\ LimiterNext
           /\ UNCHANGED <<part, loadVars, data, answered, written, deleted,
                          taskVars, wsVars, eventVars, schemaVars>>
Cache == part = "cache" /\ CacheNext
         /\ UNCHANGED <<part, loadVars, buckets, last_cleanup, allowed, counted,
                        taskVars, wsVars, eventVars, schemaVars>>
Queue == part = "tasks" /\ TaskNext
         /\ UNCHANGED <<part, loadVars, limiterVars, cacheVars, wsVars, eventVars, schemaVars>>
Connections == part = "sockets" /\ WsNext
               /\ UNCHANGED <<part, loadVars, limiterVars, cacheVars, taskVars, eventVars,
                              schemaVars>>
Events == part = "events" /\ EventNext
          /\ UNCHANGED <<part, loadVars, limiterVars, cacheVars, taskVars, wsVars, schemaVars>>
Startup == part = "migrations" /\ MigrationNext
           /\ UNCHANGED <<part, loadVars, limiterVars, cacheVars, taskVars, wsVars, eventVars>>

PlatformNext ==
    Hands \/ Limiter \/ Cache \/ Queue \/ Connections \/ Events \/ Startup

PlatformSpec ==
    PlatformInit /\ [][PlatformNext]_platformVars
    /\ TaskFairness /\ WsFairness /\ MigrationFairness

(* The requests, the buckets, the cache and the task queue are in states   *)
(* they can be in: a bucket is never beyond full, the cache never beyond   *)
(* its size, and each task waits, runs or has settled, and only one of     *)
(* these.                                                                  *)
PlatformTypeOK == ServiceTypeOK /\ BucketsTypeOK /\ CacheTypeOK /\ TasksTypeOK

(* What was begun comes to an end: submitted tasks settle, broadcasts end, *)
(* dead connections are forgotten, and processes start.                    *)
PlatformSettles == TasksSettle /\ WsSettles /\ StartsUp
=============================================================================
