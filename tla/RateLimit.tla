------------------------------ MODULE RateLimit -------------------------------
(***************************************************************************)
(* RateLimitMiddleware of apps/api/middleware/rate_limit.py: token buckets *)
(* that are filled when they are used, and a sweep that drops the stale.   *)
(*                                                                         *)
(* dispatch runs on the event loop and _consume has no await in it, so     *)
(* that a request is one step.  Tokens are floats in the code and counted  *)
(* here in fractions of 1/Minute, in which every amount is whole.          *)
(***************************************************************************)
EXTENDS Monotonic

CONSTANTS
    ClientIps,
    Rpm,               \* RateLimitMiddleware.rpm
    Minute,            \* the 60.0 of tokens_per_second
    BucketTtl,         \* _BUCKET_TTL
    CleanupInterval    \* _CLEANUP_INTERVAL

ASSUME RateAssumption == Rpm \in Nat /\ Minute \in Nat
ASSUME SweepAssumption == CleanupInterval \in Nat /\ BucketTtl \in Nat
(* _BUCKET_TTL is 300 seconds and an empty bucket is full after 60.        *)
ASSUME StaleIsFull == BucketTtl >= Minute

VARIABLES
    buckets,        \* _buckets: a dictionary from addresses to [tokens, last_refill]
    last_cleanup,   \* _last_cleanup
    allowed,        \* history: allowed[ip], the latest request of ip was let through
    counted         \* history: counted[ip], an observer's [since, granted] count of ip

limiterVars == <<now, buckets, last_cleanup, allowed, counted>>

Full == Rpm * Minute
AtMostFull(amount) == IF amount > Full THEN Full ELSE amount

Stale(ip) == now - buckets[ip].last_refill > BucketTtl

SweepDue == now - last_cleanup >= CleanupInterval

(* Mutant: a sweep drops every bucket that has been filled before.         *)
KeptFresh == IF SweepDue THEN {ip \in DOMAIN buckets : buckets[ip].last_refill = now}
             ELSE DOMAIN buckets

(* _cleanup_stale: the addresses that are still in _buckets afterwards.    *)
Kept == IF SweepDue THEN {ip \in DOMAIN buckets : ~Stale(ip)} ELSE DOMAIN buckets

(* Mutant: what is earned is not capped.                                   *)
Hoarded(ip, kept) ==
    IF ip \in kept
    THEN buckets[ip].tokens + (now - buckets[ip].last_refill) * Rpm
    ELSE Full

Refilled(ip, kept) ==
    IF ip \in kept
    THEN AtMostFull(buckets[ip].tokens + (now - buckets[ip].last_refill) * Rpm)
    ELSE Full

(* A request from ip: _consume, and the 429 of dispatch if it is refused.  *)
Consume(ip) ==
    LET kept == Kept
        tokens == Refilled(ip, kept)
        granted == tokens >= Minute
        left == IF granted THEN tokens - Minute ELSE tokens
    IN  /\ buckets' = [c \in kept \cup {ip} |->
                          IF c = ip THEN [tokens |-> left, last_refill |-> now] ELSE buckets[c]]
        /\ last_cleanup' = IF SweepDue THEN now ELSE last_cleanup
        /\ allowed' = [allowed EXCEPT ![ip] = granted]
        /\ counted' = IF granted THEN [counted EXCEPT ![ip].granted = @ + 1] ELSE counted
        /\ UNCHANGED now

(* Somebody starts to count what ip is granted: any moment opens a window. *)
StartCounting(ip) ==
    /\ counted' = [counted EXCEPT ![ip] = [since |-> now, granted |-> 0]]
    /\ UNCHANGED <<now, buckets, last_cleanup, allowed>>

SecondPasses == Tick /\ UNCHANGED <<buckets, last_cleanup, allowed, counted>>

LimiterInit ==
    /\ now = 0
    /\ buckets = [ip \in {} |-> [tokens |-> 0, last_refill |-> 0]]
    /\ last_cleanup = 0
    /\ allowed = [ip \in ClientIps |-> TRUE]
    /\ counted = [ip \in ClientIps |-> [since |-> 0, granted |-> 0]]

LimiterNext == SecondPasses \/ \E ip \in ClientIps : Consume(ip) \/ StartCounting(ip)

LimiterSpec == LimiterInit /\ [][LimiterNext]_limiterVars

-----------------------------------------------------------------------------
(* Properties.                                                             *)

(* Every bucket is one the middleware can have: filled at a moment that    *)
(* has passed and never beyond Rpm tokens.                                 *)
BucketsTypeOK ==
    /\ now \in Nat /\ last_cleanup \in 0 .. now
    /\ DOMAIN buckets \subseteq ClientIps
    /\ \A ip \in DOMAIN buckets :
          /\ DOMAIN buckets[ip] = {"tokens", "last_refill"}
          /\ buckets[ip].tokens \in 0 .. Full
          /\ buckets[ip].last_refill \in 0 .. now
    /\ allowed \in [ClientIps -> BOOLEAN]
    /\ \A ip \in ClientIps : counted[ip].granted \in Nat /\ counted[ip].since \in 0 .. now
    /\ counted \in [ClientIps -> [since : Int, granted : Int]]

(* In no window of time, wherever it begins, is an address let through     *)
(* more often than a full bucket and what is earned in the window allow,   *)
(* however sweeps, forgotten buckets and bursts fall together.             *)
WindowBound ==
    \A ip \in ClientIps :
        counted[ip].granted * Minute <= Full + Rpm * (now - counted[ip].since)

(* What ip could spend if it asked now.                                    *)
Credit(ip) == Refilled(ip, DOMAIN buckets)

(* The sweep cannot be noticed: the middleware answers every request as    *)
(* buckets that are never dropped and filled every second would.           *)
Ideal == INSTANCE TokenBucket WITH credit <- [ip \in ClientIps |-> Credit(ip)]
ImplementsTokenBucket == Ideal!BucketSpec
=============================================================================
