----------------------------- MODULE TokenBucket ------------------------------
(***************************************************************************)
(* What a rate limiter of Rpm requests per minute promises: every client   *)
(* has a bucket that is never forgotten, earns Rpm sixtieths of a token a  *)
(* second up to Rpm tokens, and is charged one token per answered request. *)
(* A request is refused exactly when its client has less than a token.     *)
(* Minute is the number of seconds in a minute; tokens are counted in      *)
(* fractions of 1/Minute, so that every amount is whole.                   *)
(***************************************************************************)
EXTENDS Integers

CONSTANTS ClientIps, Rpm, Minute

VARIABLES
    credit,   \* credit[ip]: what the client could spend now
    allowed   \* allowed[ip]: its latest request was let through

bucketVars == <<credit, allowed>>

FullBucket == Rpm * Minute
Capped(amount) == IF amount > FullBucket THEN FullBucket ELSE amount

BucketInit ==
    /\ credit = [ip \in ClientIps |-> FullBucket]
    /\ allowed = [ip \in ClientIps |-> TRUE]

Earn ==
    /\ credit' = [ip \in ClientIps |-> Capped(credit[ip] + Rpm)]
    /\ UNCHANGED allowed

Allow(ip) ==
    /\ credit[ip] >= Minute
    /\ credit' = [credit EXCEPT ![ip] = @ - Minute]
    /\ allowed' = [allowed EXCEPT ![ip] = TRUE]

Refuse(ip) ==
    /\ credit[ip] < Minute
    /\ allowed' = [allowed EXCEPT ![ip] = FALSE]
    /\ UNCHANGED credit

BucketNext == Earn \/ \E ip \in ClientIps : Allow(ip) \/ Refuse(ip)

BucketSpec == BucketInit /\ [][BucketNext]_bucketVars
=============================================================================
