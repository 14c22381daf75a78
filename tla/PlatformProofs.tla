---------------------------- MODULE PlatformProofs ----------------------------
(* Theorems about the parts of the API process beside the hands.  Those    *)
(* that read the clock: the rate limiter, for any number of addresses, any *)
(* rate and any times after which buckets are stale and swept, and the     *)
(* bounded dictionary, for any keys and values, any greatest size and any  *)
(* time to live.  The others: the start of the store, the task queue and   *)
(* the WebSocket manager, for any number of processes, tasks, workers,     *)
(* readers, sockets and broadcasts; the event store; and all of them       *)
(* together.                                                               *)
EXTENDS MCPlatform, HandServiceProofs, SequenceTheorems,
        FiniteSetTheorems, WellFoundedInduction, TLAPS

-----------------------------------------------------------------------------
(***************************************************************************)
(* The parts that read the clock.                                          *)
(***************************************************************************)

(* Arithmetic of amounts.                                                  *)

(* A second more earns Rpm more.                                           *)
LEMMA EarnedInASecond ==
    ASSUME NEW a \in Int, NEW b \in Int
    PROVE  /\ ((a + 1) - b) * Rpm = (a - b) * Rpm + Rpm
           /\ Rpm * ((a + 1) - b) = Rpm * (a - b) + Rpm
           /\ (a - b) * Rpm \in Int /\ Rpm * (a - b) \in Int
  BY RateAssumption

(* One request more is worth Minute more.                                  *)
LEMMA OneMoreGranted ==
    ASSUME NEW n \in Nat
    PROVE  /\ (n + 1) * Minute = n * Minute + Minute
           /\ n * Minute \in Nat
  BY RateAssumption

(* What is earned in a time is not negative, and is a full bucket after a  *)
(* minute.                                                                 *)
LEMMA EarnedInTime ==
    ASSUME NEW t \in Nat
    PROVE  /\ t * Rpm \in Nat /\ Full \in Nat
           /\ t >= Minute => t * Rpm >= Full
  <1>1. t * Rpm \in Nat /\ Full \in Nat
    BY RateAssumption DEF Full
  <1>2. ASSUME t >= Minute PROVE t * Rpm >= Full
    <2>1. t - Minute \in Nat
      BY <1>2, RateAssumption
    <2>2. \A d, r \in Nat : d * r >= 0
      OBVIOUS
    <2>3. (t - Minute) * Rpm >= 0
      BY <2>1, <2>2, RateAssumption
    <2>4. (t - Minute) * Rpm = t * Rpm - Rpm * Minute
      BY RateAssumption
    <2> QED BY <2>3, <2>4, <1>1, RateAssumption DEF Full
  <1> QED BY <1>1, <1>2

-----------------------------------------------------------------------------
(* What an address could spend.                                            *)

(* It is an amount up to a full bucket.                                    *)
LEMMA CreditType ==
    ASSUME BucketsTypeOK, NEW ip \in ClientIps
    PROVE  Credit(ip) \in 0 .. Full
  <1>1. Full \in Nat
    BY EarnedInTime
  <1>2. CASE ip \notin DOMAIN buckets
    BY <1>1, <1>2 DEF Credit, Refilled
  <1>3. CASE ip \in DOMAIN buckets
    <2>1. now - buckets[ip].last_refill \in Nat /\ buckets[ip].tokens \in 0 .. Full
      BY <1>3 DEF BucketsTypeOK
    <2>2. (now - buckets[ip].last_refill) * Rpm \in Nat
      BY <2>1, EarnedInTime
    <2> QED BY <1>1, <1>3, <2>1, <2>2 DEF Credit, Refilled, AtMostFull
  <1> QED BY <1>2, <1>3

(* A sweep drops only buckets that are full by now.                        *)
LEMMA SweptIsFull ==
    ASSUME BucketsTypeOK, NEW ip \in ClientIps
    PROVE  /\ Refilled(ip, Kept) = Credit(ip)
           /\ ip \notin Kept => Credit(ip) = Full
  <1>1. CASE ip \in Kept \/ ip \notin DOMAIN buckets
    BY <1>1 DEF Credit, Refilled, Kept
  <1>2. CASE ip \notin Kept /\ ip \in DOMAIN buckets
    <2>1. now - buckets[ip].last_refill \in Nat /\ buckets[ip].tokens \in 0 .. Full
      BY <1>2 DEF BucketsTypeOK
    <2>2. now - buckets[ip].last_refill >= Minute
      BY <1>2, <2>1, StaleIsFull, RateAssumption, SweepAssumption DEF Kept, Stale
    <2>3. /\ (now - buckets[ip].last_refill) * Rpm \in Nat /\ Full \in Nat
          /\ (now - buckets[ip].last_refill) * Rpm >= Full
      BY <2>1, <2>2, EarnedInTime
    <2> QED BY <1>2, <2>1, <2>3 DEF Credit, Refilled, AtMostFull
  <1> QED BY <1>1, <1>2

-----------------------------------------------------------------------------
(* What the steps do to it.                                                *)

(* A second adds Rpm, up to a full bucket.                                 *)
LEMMA SecondEarns ==
    ASSUME BucketsTypeOK, SecondPasses, NEW ip \in ClientIps
    PROVE  Credit(ip)' = AtMostFull(Credit(ip) + Rpm)
  <1>1. now' = now + 1 /\ buckets' = buckets /\ now \in Nat
    BY DEF SecondPasses, Tick, BucketsTypeOK
  <1>2. Full \in Nat /\ Full' = Full
    BY EarnedInTime DEF Full
  <1>3. CASE ip \notin DOMAIN buckets
    BY <1>1, <1>2, <1>3, RateAssumption DEF Credit, Refilled, AtMostFull
  <1>4. CASE ip \in DOMAIN buckets
    <2> DEFINE tokens == buckets[ip].tokens
               since == buckets[ip].last_refill
               earned == (now - since) * Rpm
    <2>1. since \in Int /\ now - since \in Nat /\ tokens \in 0 .. Full
      BY <1>4 DEF BucketsTypeOK
    <2>2. Credit(ip) = AtMostFull(tokens + (now - since) * Rpm)
      BY <1>4 DEF Credit, Refilled
    <2>3. Credit(ip)' = AtMostFull(tokens + ((now + 1) - since) * Rpm)
      <3>1. ip \in DOMAIN buckets' /\ buckets'[ip] = buckets[ip]
        BY <1>1, <1>4
      <3>2. Credit(ip)' = AtMostFull(buckets'[ip].tokens + (now' - buckets'[ip].last_refill) * Rpm)
        BY <3>1 DEF Credit, Refilled
      <3>3. buckets'[ip].tokens = tokens /\ now' - buckets'[ip].last_refill = (now + 1) - since
        BY <1>1, <3>1
      <3> QED BY <3>2, <3>3, Zenon
    <2> HIDE DEF tokens, since
    <2>4. earned \in Nat
      BY <2>1, EarnedInTime
    <2>5. ((now + 1) - since) * Rpm = earned + Rpm
      BY <1>1, <2>1, RateAssumption DEF earned
    <2> HIDE DEF earned
    <2> QED BY <1>2, <2>1, <2>2, <2>3, <2>4, <2>5, RateAssumption DEF AtMostFull, earned
  <1> QED BY <1>3, <1>4

(* A request is let through if its address has a token, which it pays, and *)
(* no other address gains or loses by the sweep.                           *)
LEMMA RequestSpends ==
    ASSUME BucketsTypeOK, NEW ip \in ClientIps, Consume(ip)
    PROVE  /\ allowed' = [allowed EXCEPT ![ip] = Credit(ip) >= Minute]
           /\ counted' = IF Credit(ip) >= Minute
                         THEN [counted EXCEPT ![ip].granted = @ + 1] ELSE counted
           /\ Credit(ip)' = IF Credit(ip) >= Minute THEN Credit(ip) - Minute ELSE Credit(ip)
           /\ \A c \in ClientIps \ {ip} : Credit(c)' = Credit(c)
           /\ BucketsTypeOK'
  <1> DEFINE left == IF Credit(ip) >= Minute THEN Credit(ip) - Minute ELSE Credit(ip)
  <1>1. Refilled(ip, Kept) = Credit(ip) /\ Credit(ip) \in 0 .. Full /\ Full \in Nat
    BY SweptIsFull, CreditType, EarnedInTime
  <1>2. left \in 0 .. Full
    BY <1>1, RateAssumption
  <1>3. /\ buckets' = [c \in Kept \cup {ip} |->
                          IF c = ip THEN [tokens |-> left, last_refill |-> now] ELSE buckets[c]]
        /\ allowed' = [allowed EXCEPT ![ip] = Credit(ip) >= Minute]
        /\ counted' = IF Credit(ip) >= Minute
                      THEN [counted EXCEPT ![ip].granted = @ + 1] ELSE counted
        /\ last_cleanup' \in {now, last_cleanup}
        /\ now' = now
    BY <1>1 DEF Consume
  <1> HIDE DEF left
  <1>4. Kept \subseteq DOMAIN buckets /\ DOMAIN buckets' = Kept \cup {ip}
    BY <1>3 DEF Kept
  <1>5. Credit(ip)' = left
    <2>1. ip \in DOMAIN buckets' /\ buckets'[ip] = [tokens |-> left, last_refill |-> now]
      BY <1>3
    <2>2. (now - now) * Rpm = 0
      BY RateAssumption DEF BucketsTypeOK
    <2>3. Credit(ip)' = AtMostFull(left + (now - now) * Rpm)
      BY <2>1, <1>3 DEF Credit, Refilled, AtMostFull, Full
    <2> QED BY <2>2, <2>3, <1>1, <1>2 DEF AtMostFull
  <1>6. ASSUME NEW c \in ClientIps \ {ip} PROVE Credit(c)' = Credit(c)
    <2>1. CASE c \in Kept
      <3>1. c \in DOMAIN buckets' /\ buckets'[c] = buckets[c] /\ c \in DOMAIN buckets
        BY <1>3, <1>4, <2>1
      <3> QED BY <3>1, <1>3 DEF Credit, Refilled, AtMostFull, Full
    <2>2. CASE c \notin Kept
      <3>1. c \notin DOMAIN buckets'
        BY <1>4, <2>2
      <3>2. Credit(c)' = Full
        BY <3>1 DEF Credit, Refilled, Full
      <3> QED BY <3>2, <2>2, SweptIsFull
    <2> QED BY <2>1, <2>2
  <1>7. BucketsTypeOK'
    <2>1. now' \in Nat /\ last_cleanup' \in 0 .. now'
      BY <1>3 DEF BucketsTypeOK
    <2>2. DOMAIN buckets' \subseteq ClientIps
      BY <1>4 DEF BucketsTypeOK
    <2>3. ASSUME NEW c \in DOMAIN buckets'
          PROVE  /\ DOMAIN buckets'[c] = {"tokens", "last_refill"}
                 /\ buckets'[c].tokens \in 0 .. Full /\ buckets'[c].last_refill \in 0 .. now'
      <3>1. CASE c = ip
        <4>1. buckets'[c] = [tokens |-> left, last_refill |-> now]
          BY <1>3, <3>1
        <4> QED BY <4>1, <1>2, <1>3 DEF BucketsTypeOK
      <3>2. CASE c # ip
        <4>1. c \in DOMAIN buckets /\ buckets'[c] = buckets[c]
          BY <1>3, <1>4, <3>2, <2>3
        <4> QED BY <4>1, <1>3 DEF BucketsTypeOK
      <3> QED BY <3>1, <3>2
    <2>4. allowed' \in [ClientIps -> BOOLEAN]
      <3>1. (Credit(ip) >= Minute) \in BOOLEAN
        BY <1>1, RateAssumption
      <3> QED BY <1>3, <3>1 DEF BucketsTypeOK
    <2>5. /\ \A c \in ClientIps : counted'[c].granted \in Nat /\ counted'[c].since \in 0 .. now'
          /\ counted' \in [ClientIps -> [since : Int, granted : Int]]
      BY <1>3 DEF BucketsTypeOK
    <2> QED BY <2>1, <2>2, <2>3, <2>4, <2>5 DEF BucketsTypeOK, Full
  <1> QED BY <1>3, <1>5, <1>6, <1>7 DEF left

-----------------------------------------------------------------------------
(* The inductive invariant.                                                *)

(* What was granted in a window and what could still be spent now are      *)
(* within the bound together.                                              *)
SpentAndLeft(ip) ==
    counted[ip].granted * Minute + Credit(ip) <= Full + Rpm * (now - counted[ip].since)

LimiterInv == BucketsTypeOK /\ \A ip \in ClientIps : SpentAndLeft(ip)

(* The amounts that the invariant compares are whole numbers.              *)
LEMMA AmountsType ==
    ASSUME BucketsTypeOK, NEW ip \in ClientIps
    PROVE  /\ counted[ip].granted \in Nat /\ counted[ip].granted * Minute \in Nat
           /\ counted[ip].since \in Int /\ now - counted[ip].since \in Nat
           /\ Rpm * (now - counted[ip].since) \in Nat
           /\ Credit(ip) \in 0 .. Full /\ Full \in Nat
  <1>1. counted[ip].granted \in Nat /\ now - counted[ip].since \in Nat /\ counted[ip].since \in Int
    BY DEF BucketsTypeOK
  <1>2. \A n, r \in Nat : n * r \in Nat
    OBVIOUS
  <1> QED BY <1>1, <1>2, RateAssumption, CreditType, EarnedInTime

LEMMA LimiterInitInv == LimiterInit => LimiterInv
  <1> SUFFICES ASSUME LimiterInit PROVE LimiterInv
    OBVIOUS
  <1>1. BucketsTypeOK
    BY DEF LimiterInit, BucketsTypeOK
  <1>2. ASSUME NEW ip \in ClientIps PROVE SpentAndLeft(ip)
    <2>1. counted[ip].granted = 0 /\ counted[ip].since = 0 /\ now = 0 /\ Credit(ip) = Full
      BY DEF LimiterInit, Credit, Refilled
    <2>2. 0 * Minute = 0 /\ Rpm * (0 - 0) = 0
      BY RateAssumption
    <2> QED BY <1>1, <2>1, <2>2, EarnedInTime DEF SpentAndLeft
  <1> QED BY <1>1, <1>2 DEF LimiterInv

LEMMA LimiterNextInv == LimiterInv /\ [LimiterNext]_limiterVars => LimiterInv'
  <1> SUFFICES ASSUME LimiterInv, [LimiterNext]_limiterVars PROVE LimiterInv'
    OBVIOUS
  <1> USE DEF LimiterInv
  <1>1. CASE SecondPasses
    <2>1. BucketsTypeOK'
      BY <1>1 DEF SecondPasses, Tick, BucketsTypeOK, Full
    <2>2. ASSUME NEW ip \in ClientIps PROVE SpentAndLeft(ip)'
      <3> DEFINE granted == counted[ip].granted * Minute
                 since == counted[ip].since
                 earned == Rpm * (now - since)
      <3>1. /\ granted \in Nat /\ since \in Int /\ now \in Int /\ earned \in Nat
            /\ Credit(ip) \in 0 .. Full /\ Full \in Nat
        BY AmountsType DEF BucketsTypeOK
      <3>2. granted + Credit(ip) <= Full + earned
        BY DEF SpentAndLeft
      <3>3. Credit(ip)' <= Credit(ip) + Rpm
        BY <1>1, <3>1, SecondEarns, RateAssumption DEF AtMostFull
      <3>4. Credit(ip)' \in 0 .. Full
        BY <2>1, CreditType, <1>1, SecondEarns, <3>1, RateAssumption DEF AtMostFull
      <3>5. counted' = counted /\ now' = now + 1
        BY <1>1 DEF SecondPasses, Tick
      <3> HIDE DEF since
      <3>6. Rpm * ((now + 1) - since) = earned + Rpm
        BY <3>1, EarnedInASecond
      <3> HIDE DEF granted, earned
      <3>7. granted + Credit(ip)' <= Full + (earned + Rpm)
        BY <3>1, <3>2, <3>3, <3>4, RateAssumption
      <3> QED BY <3>5, <3>6, <3>7 DEF SpentAndLeft, Full, granted, since
    <2> QED BY <2>1, <2>2
  <1>2. ASSUME NEW ip \in ClientIps, Consume(ip) PROVE LimiterInv'
    <2>1. /\ BucketsTypeOK' /\ now' = now
          /\ counted' = IF Credit(ip) >= Minute
                        THEN [counted EXCEPT ![ip].granted = @ + 1] ELSE counted
          /\ Credit(ip)' = IF Credit(ip) >= Minute THEN Credit(ip) - Minute ELSE Credit(ip)
          /\ \A c \in ClientIps \ {ip} : Credit(c)' = Credit(c)
      BY <1>2, RequestSpends DEF Consume
    <2>2. ASSUME NEW c \in ClientIps PROVE SpentAndLeft(c)'
      <3>1. CASE c # ip \/ ~(Credit(ip) >= Minute)
        <4>1. counted'[c] = counted[c] /\ Credit(c)' = Credit(c)
          BY <2>1, <3>1 DEF BucketsTypeOK
        <4> QED BY <2>1, <4>1 DEF SpentAndLeft, Full
      <3>2. CASE c = ip /\ Credit(ip) >= Minute
        <4> DEFINE granted == counted[c].granted
        <4>1. counted'[c].granted = granted + 1 /\ counted'[c].since = counted[c].since
          BY <2>1, <3>2 DEF BucketsTypeOK
        <4>2. /\ granted \in Nat /\ granted * Minute \in Nat /\ Credit(c) \in 0 .. Full
              /\ Full \in Nat
          BY AmountsType
        <4>3. (granted + 1) * Minute = granted * Minute + Minute
          BY <4>2, OneMoreGranted
        <4>4. Credit(c)' = Credit(c) - Minute
          BY <2>1, <3>2
        <4>5. granted * Minute + Credit(c) <= Full + Rpm * (now - counted[c].since)
          BY DEF SpentAndLeft
        <4> HIDE DEF granted
        <4>6. (granted + 1) * Minute + Credit(c)' = granted * Minute + Credit(c)
          BY <4>2, <4>3, <4>4, RateAssumption
        <4>7. (granted + 1) * Minute + Credit(c)' <= Full + Rpm * (now - counted[c].since)
          BY <4>5, <4>6
        <4> QED BY <2>1, <4>1, <4>7 DEF SpentAndLeft, Full
      <3> QED BY <3>1, <3>2
    <2> QED BY <2>1, <2>2
  <1>3. ASSUME NEW ip \in ClientIps, StartCounting(ip) PROVE LimiterInv'
    <2>1. BucketsTypeOK'
      BY <1>3 DEF StartCounting, BucketsTypeOK, Full
    <2>2. ASSUME NEW c \in ClientIps PROVE SpentAndLeft(c)'
      <3>1. Credit(c)' = Credit(c) /\ now' = now
        BY <1>3 DEF StartCounting, Credit, Refilled, AtMostFull, Full
      <3>2. CASE c # ip
        <4>1. counted'[c] = counted[c]
          BY <1>3, <3>2 DEF StartCounting, BucketsTypeOK
        <4> QED BY <3>1, <4>1 DEF SpentAndLeft, Full
      <3>3. CASE c = ip
        <4>1. counted'[c].granted = 0 /\ counted'[c].since = now
          BY <1>3, <3>3 DEF StartCounting, BucketsTypeOK
        <4>2. 0 * Minute = 0 /\ Rpm * (now - now) = 0
          BY RateAssumption DEF BucketsTypeOK
        <4>3. Credit(c) \in 0 .. Full /\ Full \in Nat
          BY AmountsType
        <4> QED BY <3>1, <4>1, <4>2, <4>3 DEF SpentAndLeft, Full
      <3> QED BY <3>2, <3>3
    <2> QED BY <2>1, <2>2
  <1>4. CASE UNCHANGED limiterVars
    BY <1>4 DEF limiterVars, BucketsTypeOK, SpentAndLeft, Credit, Refilled, AtMostFull, Full
  <1> QED BY <1>1, <1>2, <1>3, <1>4 DEF LimiterNext

(* What the middleware holds is consistent and no window is overspent.     *)
THEOREM BucketsConsistent == LimiterSpec => []LimiterInv
  BY LimiterInitInv, LimiterNextInv, PTL DEF LimiterSpec

(* The buckets are always ones that the middleware can have: filled at a   *)
(* moment that has passed and never beyond Rpm tokens.                     *)
THEOREM BucketsCorrect == LimiterSpec => []BucketsTypeOK
  <1>1. LimiterInv => BucketsTypeOK
    BY DEF LimiterInv
  <1> QED BY <1>1, BucketsConsistent, PTL

(* In no window is an address let through more often than a full bucket    *)
(* and what is earned in the window allow.                                 *)
THEOREM NoWindowOverspent == LimiterSpec => []WindowBound
  <1>1. LimiterInv => WindowBound
    <2> SUFFICES ASSUME LimiterInv, NEW ip \in ClientIps
                 PROVE  counted[ip].granted * Minute <= Full + Rpm * (now - counted[ip].since)
      BY DEF WindowBound
    <2>1. SpentAndLeft(ip) /\ BucketsTypeOK
      BY DEF LimiterInv
    <2> DEFINE granted == counted[ip].granted * Minute
               earned == Rpm * (now - counted[ip].since)
    <2>2. granted \in Nat /\ earned \in Nat /\ Credit(ip) \in 0 .. Full /\ Full \in Nat
      BY <2>1, AmountsType
    <2>3. granted + Credit(ip) <= Full + earned
      BY <2>1 DEF SpentAndLeft
    <2> HIDE DEF granted, earned
    <2>4. granted <= Full + earned
      BY <2>2, <2>3
    <2> QED BY <2>4 DEF granted, earned
  <1> QED BY <1>1, BucketsConsistent, PTL

-----------------------------------------------------------------------------
(* Refinement.                                                             *)

LEMMA InitRefines == LimiterInit => Ideal!BucketInit
  BY DEF LimiterInit, Ideal!BucketInit, Ideal!FullBucket, Credit, Refilled, Full

LEMMA StepRefines ==
    LimiterInv /\ [LimiterNext]_limiterVars => [Ideal!BucketNext]_(Ideal!bucketVars)
  <1> SUFFICES ASSUME LimiterInv, [LimiterNext]_limiterVars
               PROVE  [Ideal!BucketNext]_(Ideal!bucketVars)
    OBVIOUS
  <1> DEFINE credit == [ip \in ClientIps |-> Credit(ip)]
  <1>1. BucketsTypeOK
    BY DEF LimiterInv
  <1>2. CASE SecondPasses
    <2>1. \A ip \in ClientIps : Credit(ip)' = AtMostFull(Credit(ip) + Rpm)
      BY <1>1, <1>2, SecondEarns
    <2>2. credit' = [ip \in ClientIps |-> AtMostFull(credit[ip] + Rpm)]
      BY <2>1
    <2>3. UNCHANGED allowed
      BY <1>2 DEF SecondPasses
    <2>4. \A amount : Ideal!Capped(amount) = AtMostFull(amount)
      BY DEF Ideal!Capped, Ideal!FullBucket, AtMostFull, Full
    <2>5. Ideal!Earn
      BY <2>2, <2>3, <2>4 DEF Ideal!Earn
    <2> QED BY <2>5 DEF Ideal!BucketNext
  <1>3. ASSUME NEW ip \in ClientIps, Consume(ip)
        PROVE  Ideal!BucketNext
    <2>1. /\ allowed' = [allowed EXCEPT ![ip] = Credit(ip) >= Minute]
          /\ Credit(ip)' = IF Credit(ip) >= Minute THEN Credit(ip) - Minute ELSE Credit(ip)
          /\ \A c \in ClientIps \ {ip} : Credit(c)' = Credit(c)
      BY <1>1, <1>3, RequestSpends
    <2>2. Credit(ip) \in Int /\ Minute \in Int
      BY <1>1, CreditType, EarnedInTime, RateAssumption
    <2>3. CASE Credit(ip) >= Minute
      <3>1. credit' = [credit EXCEPT ![ip] = @ - Minute]
        BY <2>1, <2>3
      <3>2. allowed' = [allowed EXCEPT ![ip] = TRUE]
        BY <2>1, <2>3
      <3>3. Ideal!Allow(ip)
        BY <2>3, <3>1, <3>2 DEF Ideal!Allow
      <3> QED BY <3>3 DEF Ideal!BucketNext
    <2>4. CASE ~(Credit(ip) >= Minute)
      <3>1. credit' = credit
        BY <2>1, <2>4
      <3>2. allowed' = [allowed EXCEPT ![ip] = FALSE]
        <4>1. (Credit(ip) >= Minute) = FALSE
          BY <2>2, <2>4
        <4> QED BY <2>1, <4>1
      <3>3. credit[ip] < Minute
        BY <2>2, <2>4
      <3>4. Ideal!Refuse(ip)
        BY <3>1, <3>2, <3>3 DEF Ideal!Refuse
      <3> QED BY <3>4 DEF Ideal!BucketNext
    <2> QED BY <2>3, <2>4
  <1>4. ASSUME UNCHANGED <<now, buckets, allowed>>
        PROVE  UNCHANGED Ideal!bucketVars
    BY <1>4 DEF Ideal!bucketVars, Credit, Refilled, AtMostFull, Full
  <1>5. ASSUME NEW ip \in ClientIps, StartCounting(ip)
        PROVE  UNCHANGED Ideal!bucketVars
    BY <1>4, <1>5 DEF StartCounting
  <1>6. CASE UNCHANGED limiterVars
    BY <1>4, <1>6 DEF limiterVars
  <1> QED BY <1>2, <1>3, <1>5, <1>6 DEF LimiterNext

(* The middleware with its sweep answers as the ideal limiter does, which  *)
(* never forgets a bucket and fills all of them every second.              *)
THEOREM ImplementsIdeal == LimiterSpec => ImplementsTokenBucket
  BY InitRefines, StepRefines, BucketsConsistent, PTL DEF LimiterSpec, ImplementsTokenBucket, Ideal!BucketSpec

-----------------------------------------------------------------------------
(* The oldest entries.                                                     *)

(* Among natural numbers there is a least one.                             *)
LEMMA LeastNatural ==
    ASSUME NEW T \in SUBSET Nat, T # {}
    PROVE  \E m \in T : \A n \in T : m <= n
  <1>1. PICK m \in T : \A n \in T : ~(<<n, m>> \in OpToRel(<, Nat))
    BY NatLessThanWellFounded, WFMin
  <1>2. \A n \in T : ~(n < m)
    BY <1>1 DEF OpToRel
  <1> QED BY <1>2

(* Some entry of a set of entries is as old as any.                        *)
LEMMA SomeOldest ==
    ASSUME CacheTypeOK, now \in Nat, NEW keys \in SUBSET DOMAIN data, keys # {}
    PROVE  \E k \in keys : \A j \in keys : data[k].ts <= data[j].ts
  <1> DEFINE times == {data[k].ts : k \in keys}
  <1>1. times \in SUBSET Nat /\ times # {}
    BY DEF CacheTypeOK
  <1>2. PICK m \in times : \A n \in times : m <= n
    BY <1>1, LeastNatural
  <1>3. PICK k \in keys : data[k].ts = m
    BY <1>2
  <1> QED BY <1>2, <1>3

(* Sets of keys are finite.                                                *)
LEMMA KeysFinite ==
    ASSUME NEW S \in SUBSET Keys
    PROVE  IsFiniteSet(S) /\ Cardinality(S) \in Nat
  BY SizeAssumption, FS_Subset, FS_CardinalityType

-----------------------------------------------------------------------------
(* The inductive invariant.                                                *)

(* The history of writes is one of the past.                               *)
HistoryOK ==
    /\ now \in Nat
    /\ written \in [Keys -> [value : Values, ts : 0 .. now] \cup {NeverWritten}]
    /\ deleted \subseteq Keys

CacheInv == CacheTypeOK /\ HistoryOK /\ HoldsLatest /\ LostOnlyToNewer

(* The keys, without k itself, that were written no earlier than k.        *)
Since(k) == {j \in Keys \ {k} : written[j].ts >= written[k].ts}

LEMMA CacheInitInv == CacheInit => CacheInv
  <1> SUFFICES ASSUME CacheInit PROVE CacheInv
    OBVIOUS
  <1>1. DOMAIN data = {} /\ now = 0 /\ deleted = {}
        /\ written = [k \in Keys |-> NeverWritten]
    BY DEF CacheInit
  <1>2. CacheTypeOK
    BY <1>1, FS_EmptySet, SizeAssumption DEF CacheTypeOK
  <1>3. HistoryOK /\ HoldsLatest
    BY <1>1 DEF HistoryOK, HoldsLatest
  <1>4. LostOnlyToNewer
    BY <1>1 DEF LostOnlyToNewer, Live, NeverWritten
  <1> QED BY <1>2, <1>3, <1>4 DEF CacheInv

(* What only drops entries that have expired, and what lets time pass,     *)
(* keeps the invariant.                                                    *)
LEMMA DropsExpired ==
    ASSUME CacheInv, now' \in Nat, now' >= now, UNCHANGED <<written, deleted>>,
           NEW keys \in SUBSET DOMAIN data,
           DOMAIN data' = keys, \A k \in keys : data'[k] = data[k],
           \A k \in DOMAIN data \ keys : Expired(k)
    PROVE  CacheInv'
  <1> USE DEF CacheInv
  <1>1. CacheTypeOK'
    <2>1. Cardinality(keys) <= Cardinality(DOMAIN data)
          /\ Cardinality(keys) \in Nat /\ Cardinality(DOMAIN data) \in Nat
      BY FS_Subset, KeysFinite DEF CacheTypeOK
    <2> QED BY <2>1, SizeAssumption DEF CacheTypeOK, HistoryOK
  <1>2. HistoryOK' /\ HoldsLatest'
    BY DEF HistoryOK, HoldsLatest
  <1>3. LostOnlyToNewer'
    <2> SUFFICES ASSUME NEW k \in Keys, Live(k)', k \notin keys
                 PROVE  Cardinality(Since(k)) >= MaxSize
      BY DEF LostOnlyToNewer, Since
    <2>1. Live(k)
      BY TtlAssumption DEF Live, HistoryOK, NeverWritten
    <2>2. k \notin DOMAIN data
      <3> SUFFICES ASSUME k \in DOMAIN data PROVE FALSE
        OBVIOUS
      <3>1. now - data[k].ts > TtlSeconds /\ data[k] = written[k]
        BY DEF Expired, HoldsLatest
      <3> QED BY <2>1, <3>1, TtlAssumption DEF Live, CacheTypeOK, HistoryOK
    <2> QED BY <2>1, <2>2 DEF LostOnlyToNewer, Since
  <1> QED BY <1>1, <1>2, <1>3

(* A write keeps it: it drops only the expired and one of the oldest.      *)
LEMMA WriteKeeps ==
    ASSUME CacheInv, NEW key \in Keys, NEW value \in Values, SetItem(key, value)
    PROVE  CacheInv'
  <1> USE DEF CacheInv
  <1>1. PICK evicted \in IF OldestOf(Unexpired, key) = {} THEN {{}}
                      ELSE {{k} : k \in OldestOf(Unexpired, key)} :
            data' = [k \in (Unexpired \ evicted) \cup {key} |->
                        IF k = key THEN [value |-> value, ts |-> now] ELSE data[k]]
    BY DEF SetItem
  <1> DEFINE kept == (Unexpired \ evicted) \cup {key}
  <1>2. /\ Unexpired \subseteq DOMAIN data /\ Unexpired \subseteq Keys /\ kept \subseteq Keys
        /\ DOMAIN data' = kept
    BY <1>1 DEF Unexpired, CacheTypeOK
  <1>3. \A k \in kept : data'[k] = IF k = key THEN [value |-> value, ts |-> now] ELSE data[k]
    BY <1>1
  <1>4. /\ written' = [written EXCEPT ![key] = [value |-> value, ts |-> now]]
        /\ deleted' = deleted \ {key} /\ now' = now
    BY DEF SetItem
  <1>5. now \in Nat /\ MaxSize \in Nat \ {0} /\ TtlSeconds \in Nat
    BY SizeAssumption, TtlAssumption DEF HistoryOK
  <1>6. Cardinality(Unexpired) \in Nat /\ Cardinality(Unexpired) <= MaxSize
    <2>1. Cardinality(Unexpired) <= Cardinality(DOMAIN data)
          /\ Cardinality(Unexpired) \in Nat /\ Cardinality(DOMAIN data) \in Nat
      BY <1>2, FS_Subset, KeysFinite DEF CacheTypeOK
    <2> QED BY <1>5, <2>1 DEF CacheTypeOK
  <1>7. /\ Cardinality(kept) <= MaxSize
        /\ evicted # {} =>
              /\ Cardinality(kept) = MaxSize /\ key \notin Unexpired
              /\ \E g \in Unexpired :
                    evicted = {g} /\ \A j \in Unexpired : data[g].ts <= data[j].ts
    <2>1. CASE key \in Unexpired \/ Cardinality(Unexpired) < MaxSize
      <3>1. evicted = {}
        BY <1>1, <1>5, <1>6, <2>1 DEF OldestOf
      <3> QED BY <1>2, <1>5, <1>6, <2>1, <3>1, FS_AddElement, KeysFinite
    <2>2. CASE key \notin Unexpired /\ Cardinality(Unexpired) >= MaxSize
      <3>1. Cardinality(Unexpired) = MaxSize
        BY <1>5, <1>6, <2>2
      <3>2. Unexpired # {}
        BY <1>5, <3>1, FS_EmptySet
      <3>3. OldestOf(Unexpired, key) # {}
        BY <1>2, <1>5, <2>2, <3>2, SomeOldest DEF OldestOf
      <3>4. PICK g \in OldestOf(Unexpired, key) : evicted = {g}
        BY <1>1, <3>3
      <3>5. g \in Unexpired /\ \A j \in Unexpired : data[g].ts <= data[j].ts
        BY <3>4, <2>2 DEF OldestOf
      <3>6. Cardinality(Unexpired \ {g}) = MaxSize - 1
        BY <1>2, <3>1, <3>5, FS_RemoveElement, KeysFinite
      <3>7. IsFiniteSet(Unexpired \ {g}) /\ key \notin Unexpired \ {g}
        BY <1>2, <2>2, KeysFinite
      <3>8. Cardinality((Unexpired \ {g}) \cup {key}) = MaxSize - 1 + 1
        BY <3>6, <3>7, FS_AddElement
      <3>9. Cardinality(kept) = MaxSize
        BY <1>5, <3>4, <3>8
      <3> QED BY <1>5, <2>2, <3>4, <3>5, <3>9
    <2> QED BY <1>5, <1>6, <2>1, <2>2
  <1>8. CacheTypeOK'
    <2>1. \A k \in kept : data'[k].value \in Values /\ data'[k].ts \in 0 .. now
      BY <1>2, <1>3, <1>5 DEF CacheTypeOK
    <2> QED BY <1>2, <1>4, <1>7, <2>1 DEF CacheTypeOK
  <1>9. HistoryOK'
    BY <1>4, <1>5 DEF HistoryOK
  <1>10. HoldsLatest'
    <2> SUFFICES ASSUME NEW k \in kept
                 PROVE  data'[k] = written'[k] /\ k \notin deleted'
      BY <1>2 DEF HoldsLatest
    <2>1. CASE k = key
      BY <1>3, <1>4, <2>1 DEF HistoryOK
    <2>2. CASE k # key
      BY <1>2, <1>3, <1>4, <2>2 DEF HoldsLatest, HistoryOK
    <2> QED BY <2>1, <2>2
  <1>11. LostOnlyToNewer'
    <2> SUFFICES ASSUME NEW k \in Keys, Live(k)', k \notin kept
                 PROVE  Cardinality(Since(k)') >= MaxSize
      BY <1>2 DEF LostOnlyToNewer, Since
    <2>1. k # key /\ written'[k] = written[k]
      BY <1>4 DEF HistoryOK
    <2>2. Live(k)
      BY <1>4, <2>1 DEF Live
    <2>3. IsFiniteSet(Since(k)') /\ Cardinality(Since(k)') \in Nat
      <3>1. Since(k)' \subseteq Keys
        BY DEF Since
      <3> QED BY <3>1, KeysFinite
    <2>4. CASE k \notin DOMAIN data
      <3>1. Cardinality(Since(k)) >= MaxSize
        BY <2>2, <2>4 DEF LostOnlyToNewer, Since
      <3>2. Since(k) \subseteq Since(k)'
        BY <1>4, <1>5, <2>1 DEF Since, HistoryOK, NeverWritten
      <3>3. Cardinality(Since(k)) <= Cardinality(Since(k)') /\ Cardinality(Since(k)) \in Nat
        BY <2>3, <3>2, FS_Subset, FS_CardinalityType
      <3> QED BY <1>5, <2>3, <3>1, <3>3
    <2>5. CASE k \in DOMAIN data
      <3>1. k \in Unexpired
        <4>1. data[k] = written[k]
          BY <2>5 DEF HoldsLatest
        <4>2. ~(now - data[k].ts > TtlSeconds)
          BY <1>5, <2>2, <2>5, <4>1 DEF Live, CacheTypeOK
        <4> QED BY <2>5, <4>2 DEF Unexpired, Expired
      <3>2. evicted = {k} /\ key \notin Unexpired /\ Cardinality(kept) = MaxSize
            /\ \A j \in Unexpired : data[k].ts <= data[j].ts
        BY <1>7, <3>1
      <3>3. kept \subseteq Since(k)'
        <4> SUFFICES ASSUME NEW j \in kept PROVE j \in Since(k)'
          OBVIOUS
        <4>1. j \in Keys \ {k}
          BY <1>2, <2>1, <3>2
        <4>2. CASE j = key
          <5>1. written'[j].ts = now /\ written[k].ts <= now
            BY <1>4, <1>5, <4>2 DEF HistoryOK, NeverWritten
          <5> QED BY <1>5, <2>1, <4>1, <5>1 DEF Since
        <4>3. CASE j # key
          <5>1. j \in Unexpired /\ written'[j] = data[j] /\ written[k] = data[k]
            BY <1>2, <1>4, <3>1, <4>1, <4>3 DEF HistoryOK, HoldsLatest
          <5>2. data[k].ts <= data[j].ts /\ data[k].ts \in Nat /\ data[j].ts \in Nat
            BY <1>2, <1>5, <3>1, <3>2, <5>1 DEF CacheTypeOK
          <5> QED BY <2>1, <4>1, <5>1, <5>2 DEF Since
        <4> QED BY <4>2, <4>3
      <3> QED BY <1>5, <2>3, <3>2, <3>3, FS_Subset
    <2> QED BY <2>4, <2>5
  <1> QED BY <1>8, <1>9, <1>10, <1>11

(* A deletion keeps it: the key does not live any more.                    *)
LEMMA DeletionKeeps ==
    ASSUME CacheInv, NEW key \in Keys, DelItem(key)
    PROVE  CacheInv'
  <1> USE DEF CacheInv
  <1>1. /\ DOMAIN data' = DOMAIN data \ {key} /\ \A k \in DOMAIN data' : data'[k] = data[k]
        /\ written' = written /\ deleted' = deleted \cup {key} /\ now' = now
    BY DEF DelItem, Only
  <1>2. CacheTypeOK'
    <2>1. Cardinality(DOMAIN data') <= Cardinality(DOMAIN data)
          /\ Cardinality(DOMAIN data') \in Nat /\ Cardinality(DOMAIN data) \in Nat
      BY <1>1, FS_Subset, KeysFinite DEF CacheTypeOK
    <2> QED BY <1>1, <2>1, SizeAssumption DEF CacheTypeOK
  <1>3. HistoryOK' /\ HoldsLatest'
    BY <1>1 DEF HistoryOK, HoldsLatest
  <1>4. LostOnlyToNewer'
    <2> SUFFICES ASSUME NEW k \in Keys, Live(k)', k \notin DOMAIN data'
                 PROVE  Cardinality(Since(k)) >= MaxSize
      BY <1>1 DEF LostOnlyToNewer, Since
    <2>1. Live(k) /\ k \notin DOMAIN data
      BY <1>1 DEF Live
    <2> QED BY <2>1 DEF LostOnlyToNewer, Since
  <1> QED BY <1>2, <1>3, <1>4

LEMMA CacheNextInv == CacheInv /\ [CacheNext]_cacheVars => CacheInv'
  <1> SUFFICES ASSUME CacheInv, [CacheNext]_cacheVars PROVE CacheInv'
    OBVIOUS
  <1>1. now \in Nat
    BY DEF CacheInv, HistoryOK
  <1>2. \A S \in SUBSET DOMAIN data : DOMAIN Only(S) = S /\ \A k \in S : Only(S)[k] = data[k]
    BY DEF Only
  <1>3. CASE TimePasses
    BY <1>1, <1>3, DropsExpired DEF TimePasses, Tick
  <1>4. CASE Length
    <2>1. Unexpired \in SUBSET DOMAIN data /\ \A k \in DOMAIN data \ Unexpired : Expired(k)
      BY DEF Unexpired
    <2> QED BY <1>1, <1>2, <1>4, <2>1, DropsExpired DEF Length
  <1>5. ASSUME NEW k \in Keys, GetItem(k) \/ HasKey(k) PROVE CacheInv'
    <2>1. CASE data' = data
      BY <1>1, <1>5, <2>1, DropsExpired DEF GetItem, HasKey
    <2>2. CASE k \notin Unexpired /\ data' = Only(DOMAIN data \ {k})
      <3>1. \A j \in DOMAIN data \ (DOMAIN data \ {k}) : Expired(j)
        BY <2>2 DEF Unexpired
      <3> QED BY <1>1, <1>2, <1>5, <2>2, <3>1, DropsExpired DEF GetItem, HasKey
    <2> QED BY <1>5, <2>1, <2>2 DEF GetItem, HasKey
  <1>6. ASSUME NEW k \in Keys, DelItem(k) PROVE CacheInv'
    BY <1>6, DeletionKeeps
  <1>7. ASSUME NEW k \in Keys, NEW v \in Values, SetItem(k, v) PROVE CacheInv'
    BY <1>7, WriteKeeps
  <1>8. CASE UNCHANGED cacheVars
    BY <1>8 DEF cacheVars, CacheInv, CacheTypeOK, HistoryOK, HoldsLatest, LostOnlyToNewer, Live
  <1> QED BY <1>3, <1>4, <1>5, <1>6, <1>7, <1>8 DEF CacheNext

-----------------------------------------------------------------------------
(* Theorems.                                                               *)

(* What the dictionary holds is the latest of what was written, and what   *)
(* it does not hold is accounted for.                                      *)
THEOREM CacheConsistent == CacheSpec => []CacheInv
  BY CacheInitInv, CacheNextInv, PTL DEF CacheSpec

(* There are never more entries than max_size.                             *)
THEOREM NeverBeyondSize == CacheSpec => []CacheTypeOK
  <1>1. CacheInv => CacheTypeOK
    BY DEF CacheInv
  <1> QED BY <1>1, CacheConsistent, PTL

(* A live entry has gone only because max_size other keys were written     *)
(* since: the oldest goes first, after all that have expired.              *)
THEOREM EvictsOldest == CacheSpec => []LostOnlyToNewer
  <1>1. CacheInv => LostOnlyToNewer
    BY DEF CacheInv
  <1> QED BY <1>1, CacheConsistent, PTL

(* A read never gives a value that was written over, deleted or has        *)
(* expired.                                                                *)
THEOREM NeverStale == CacheSpec => ServesLive
  <1> DEFINE Serves ==
        answered' # answered /\ answered'.found =>
            Live(answered'.key) /\ answered'.value = written[answered'.key].value
  <1>1. CacheInv /\ [CacheNext]_cacheVars => [Serves]_cacheVars
    <2> SUFFICES ASSUME CacheInv, CacheNext, answered' # answered, answered'.found
                 PROVE  Live(answered'.key) /\ answered'.value = written[answered'.key].value
      OBVIOUS
    <2>1. PICK key \in Keys : GetItem(key)
      BY DEF CacheNext, TimePasses, Length, HasKey, DelItem, SetItem
    <2>2. answered'.key = key /\ key \in Unexpired /\ answered'.value = data[key].value
      BY <2>1 DEF GetItem
    <2>3. /\ data[key] = written[key] /\ key \notin deleted /\ data[key].ts \in Nat
          /\ ~(now - data[key].ts > TtlSeconds) /\ now \in Nat
      BY <2>2 DEF CacheInv, HoldsLatest, CacheTypeOK, HistoryOK, Unexpired, Expired
    <2> QED BY <2>2, <2>3, TtlAssumption DEF Live
  <1> QED BY <1>1, CacheConsistent, PTL DEF CacheSpec, ServesLive

-----------------------------------------------------------------------------
(***************************************************************************)
(* The other parts, and the platform together.                             *)
(***************************************************************************)

(* Sequences without repetitions.                                          *)

LEMMA ToSetAppend ==
    ASSUME NEW S, NEW q \in Seq(S), NEW e \in S
    PROVE  /\ Append(q, e) \in Seq(S)
           /\ ToSet(Append(q, e)) = ToSet(q) \cup {e}
           /\ IsInjective(q) /\ e \notin ToSet(q) => IsInjective(Append(q, e))
  <1>1. /\ Append(q, e) \in Seq(S) /\ Len(q) \in Nat
        /\ DOMAIN q = 1 .. Len(q) /\ DOMAIN Append(q, e) = 1 .. Len(q) + 1
        /\ \A i \in 1 .. Len(q) : Append(q, e)[i] = q[i]
        /\ Append(q, e)[Len(q) + 1] = e
    BY AppendProperties, LenProperties
  <1>2. 1 .. Len(q) + 1 = (1 .. Len(q)) \cup {Len(q) + 1}
    BY <1>1
  <1> QED BY <1>1, <1>2 DEF ToSet, IsInjective

LEMMA ToSetTail ==
    ASSUME NEW S, NEW q \in Seq(S), q # <<>>
    PROVE  /\ Tail(q) \in Seq(S) /\ Head(q) \in S
           /\ ToSet(q) = ToSet(Tail(q)) \cup {Head(q)}
           /\ IsInjective(q) => IsInjective(Tail(q)) /\ Head(q) \notin ToSet(Tail(q))
  <1>1. /\ Tail(q) \in Seq(S) /\ Head(q) \in S /\ Len(q) \in Nat \ {0} /\ Head(q) = q[1]
        /\ DOMAIN q = 1 .. Len(q) /\ DOMAIN Tail(q) = 1 .. Len(q) - 1
        /\ \A i \in 1 .. Len(q) - 1 : Tail(q)[i] = q[i + 1]
    BY HeadTailProperties, LenProperties, EmptySeq
  <1>2. /\ 1 \in 1 .. Len(q)
        /\ \A i \in 1 .. Len(q) - 1 : i + 1 \in 1 .. Len(q) /\ i + 1 # 1
        /\ \A i, j \in 1 .. Len(q) - 1 : i + 1 = j + 1 => i = j
    BY <1>1
  <1>3. ToSet(q) = ToSet(Tail(q)) \cup {Head(q)}
    <2>1. ASSUME NEW i \in 1 .. Len(q) PROVE i = 1 \/ \E j \in 1 .. Len(q) - 1 : i = j + 1
      <3>1. i = 1 \/ (i - 1 \in 1 .. Len(q) - 1 /\ i = (i - 1) + 1)
        BY <1>1
      <3> QED BY <3>1
    <2>2. ToSet(q) \subseteq ToSet(Tail(q)) \cup {Head(q)}
      <3>1. ASSUME NEW i \in 1 .. Len(q) PROVE q[i] \in ToSet(Tail(q)) \cup {Head(q)}
        <4>1. \A j \in 1 .. Len(q) - 1 : Tail(q)[j] \in ToSet(Tail(q))
          BY <1>1 DEF ToSet
        <4>2. CASE i = 1
          BY <1>1, <4>2
        <4>3. CASE \E j \in 1 .. Len(q) - 1 : i = j + 1
          BY <1>1, <4>1, <4>3
        <4> QED BY <2>1, <4>2, <4>3
      <3> QED BY <1>1, <3>1 DEF ToSet
    <2>3. ToSet(Tail(q)) \cup {Head(q)} \subseteq ToSet(q)
      BY <1>1, <1>2 DEF ToSet
    <2> QED BY <2>2, <2>3
  <1>4. ASSUME IsInjective(q) PROVE IsInjective(Tail(q)) /\ Head(q) \notin ToSet(Tail(q))
    <2>1. \A i \in 1 .. Len(q) - 1 : Tail(q)[i] # Head(q)
      BY <1>1, <1>2, <1>4 DEF IsInjective
    <2>2. IsInjective(Tail(q))
      BY <1>1, <1>2, <1>4 DEF IsInjective
    <2> QED BY <1>1, <2>1, <2>2 DEF ToSet
  <1> QED BY <1>1, <1>3, <1>4

LEMMA ToSetTyped ==
    ASSUME NEW S, NEW q \in Seq(S)
    PROVE  ToSet(q) \subseteq S
  BY LenProperties, ElementOfSeq DEF ToSet

-----------------------------------------------------------------------------
(* Migrations.                                                             *)

(* The statements before number n of version 1 have made their objects.    *)
MadeBefore(n) == {Statements(1)[k] : k \in 1 .. n - 1}

SchemaTypeOK ==
    /\ schema \subseteq Everything
    /\ versions \in Seq(1 .. SchemaVersion)
    /\ at = [p \in Processes |-> at[p]]
    /\ existing \in [Processes -> BOOLEAN]
    /\ current \in [Processes -> {0, SchemaVersion}]

(* Rows are committed together, and only over a whole schema.              *)
RowsAreWhole == versions # <<>> => schema = Everything /\ SchemaVersion \in ToSet(versions)

(* A process is where its statements have brought the schema: once it is   *)
(* past its ALTER, hands has its column.                                   *)
ProcessOf(p) ==
    /\ current[p] # 0 => versions # <<>>
    /\ \/ at[p] \in {<<"closed">>, <<"failed">>}
       \/ /\ at[p] = <<"alter">>
          /\ ~existing[p] /\ "hands" \in schema => "session_id" \in schema
       \/ /\ at[p] = <<"select_version">>
          /\ "hands" \in schema => "session_id" \in schema
       \/ \E number \in 1 .. 5 :
              /\ at[p] = <<"statement", 1, number>> /\ current[p] = 0
              /\ "hands" \in schema => "session_id" \in schema
              /\ MadeBefore(number) \subseteq schema
       \/ \E version \in 2 .. SchemaVersion :
              at[p] = <<"statement", version, 1>> /\ current[p] = 0 /\ schema = Everything
       \/ at[p] = <<"analyze">> /\ schema = Everything
       \/ at[p] = <<"ready">> /\ versions # <<>>

MigrationIInv == SchemaTypeOK /\ RowsAreWhole /\ \A p \in Processes : ProcessOf(p)

LEMMA MigrationsStart == MigrationInit => MigrationIInv
  <1> SUFFICES ASSUME MigrationInit PROVE MigrationIInv
    OBVIOUS
  <1>1. SchemaTypeOK
    BY DEF MigrationInit, SchemaTypeOK, Legacy, Everything
  <1>2. RowsAreWhole
    BY DEF MigrationInit, RowsAreWhole
  <1>3. \A p \in Processes : ProcessOf(p)
    BY DEF MigrationInit, ProcessOf
  <1> QED BY <1>1, <1>2, <1>3 DEF MigrationIInv

(* The schema and the rows only grow, and hands gets its column for good.  *)
SchemaGrows ==
    /\ schema \subseteq schema'
    /\ versions # <<>> => versions' # <<>>
    /\ ("hands" \in schema => "session_id" \in schema)
          => ("hands" \in schema' => "session_id" \in schema')

(* A process stays where it is while the schema grows under it.            *)
LEMMA ProcessStays ==
    ASSUME NEW p \in Processes, ProcessOf(p), SchemaGrows, schema' \subseteq Everything,
           at'[p] = at[p], existing'[p] = existing[p], current'[p] = current[p]
    PROVE  ProcessOf(p)'
  <1>1. schema = Everything => schema' = Everything
    BY DEF SchemaGrows
  <1> QED BY <1>1 DEF ProcessOf, SchemaGrows, MadeBefore

(* A step of one process leaves the local state of the others alone.       *)
LocalTo(p) ==
    \A q \in Processes \ {p} :
        at'[q] = at[q] /\ existing'[q] = existing[q] /\ current'[q] = current[q]

RowsKept(p) == SchemaTypeOK' /\ RowsAreWhole' /\ SchemaGrows /\ LocalTo(p) /\ ProcessOf(p)'

LEMMA OpenKeeps ==
    ASSUME MigrationIInv, NEW p \in Processes, Open(p)
    PROVE  RowsKept(p)
  <1>1. SchemaTypeOK' /\ RowsAreWhole' /\ SchemaGrows
    BY DEF Open, ToStep, MigrationIInv, SchemaTypeOK, RowsAreWhole, SchemaGrows
  <1>2. at' = [at EXCEPT ![p] = <<"alter">>] /\ at = [q \in Processes |-> at[q]]
    BY DEF Open, ToStep, MigrationIInv, SchemaTypeOK
  <1>3. existing'[p] = ("hands" \in schema /\ "session_id" \notin schema) /\ current' = current
        /\ schema' = schema /\ versions' = versions
    BY DEF Open, MigrationIInv, SchemaTypeOK
  <1>4. LocalTo(p)
    BY <1>2, <1>3 DEF LocalTo, Open, MigrationIInv, SchemaTypeOK
  <1>5. current[p] # 0 => versions # <<>>
    BY DEF MigrationIInv, ProcessOf
  <1>6. ProcessOf(p)'
    BY <1>2, <1>3, <1>5 DEF ProcessOf
  <1> QED BY <1>1, <1>4, <1>6 DEF RowsKept

LEMMA AlterKeeps ==
    ASSUME MigrationIInv, NEW p \in Processes, Alter(p)
    PROVE  RowsKept(p)
  <1>1. SchemaTypeOK' /\ RowsAreWhole' /\ SchemaGrows
    BY DEF Alter, ToStep, MigrationIInv, SchemaTypeOK, RowsAreWhole, SchemaGrows, Everything
  <1>2. at' = [at EXCEPT ![p] = <<"select_version">>] /\ at = [q \in Processes |-> at[q]]
    BY DEF Alter, ToStep, MigrationIInv, SchemaTypeOK
  <1>3. LocalTo(p)
    BY <1>2 DEF LocalTo, Alter
  <1>4. /\ current[p] # 0 => versions # <<>>
        /\ ~existing[p] /\ "hands" \in schema => "session_id" \in schema
    BY DEF Alter, MigrationIInv, ProcessOf
  <1>5. ProcessOf(p)'
    BY <1>2, <1>4 DEF Alter, ProcessOf
  <1> QED BY <1>1, <1>3, <1>5 DEF RowsKept

(* The highest row of a database with rows is the version of the code.     *)
LEMMA HighestRow ==
    ASSUME SchemaTypeOK, RowsAreWhole, versions # <<>>
    PROVE  CurrentVersion = SchemaVersion
  <1>1. ToSet(versions) \subseteq 1 .. SchemaVersion /\ SchemaVersion \in ToSet(versions)
    <2>1. DOMAIN versions = 1 .. Len(versions)
          /\ \A i \in 1 .. Len(versions) : versions[i] \in 1 .. SchemaVersion
      BY LenProperties, ElementOfSeq DEF SchemaTypeOK
    <2> QED BY <2>1 DEF RowsAreWhole, ToSet
  <1>2. Max(ToSet(versions)) = SchemaVersion
    BY <1>1, VersionAssumption DEF Max
  <1> QED BY <1>2 DEF RowsAreWhole, CurrentVersion, Highest, Everything

LEMMA SelectVersionKeeps ==
    ASSUME MigrationIInv, NEW p \in Processes, SelectVersion(p)
    PROVE  RowsKept(p)
  <1>1. /\ current' = [current EXCEPT ![p] = CurrentVersion]
        /\ at' = [at EXCEPT ![p] = NextVersion(p, CurrentVersion + 1)]
        /\ at = [q \in Processes |-> at[q]] /\ current \in [Processes -> {0, SchemaVersion}]
        /\ schema' = schema /\ versions' = versions /\ existing' = existing
    BY DEF SelectVersion, ToStep, MigrationIInv, SchemaTypeOK
  <1>2. CurrentVersion \in {0, SchemaVersion} /\ (CurrentVersion # 0 => versions # <<>>)
    BY HighestRow DEF CurrentVersion, Highest, MigrationIInv
  <1>3. SchemaTypeOK'
    BY <1>1, <1>2 DEF MigrationIInv, SchemaTypeOK
  <1>4. RowsAreWhole' /\ SchemaGrows /\ LocalTo(p)
    BY <1>1 DEF MigrationIInv, RowsAreWhole, SchemaGrows, LocalTo
  <1>5. current'[p] = CurrentVersion /\ at'[p] = NextVersion(p, CurrentVersion + 1)
    BY <1>1
  <1>6. "hands" \in schema => "session_id" \in schema
    BY DEF SelectVersion, MigrationIInv, ProcessOf
  <1>7. CASE versions = <<>>
    <2>1. CurrentVersion = 0 /\ at'[p] = <<"statement", 1, 1>>
      BY <1>2, <1>5, <1>7, VersionAssumption DEF NextVersion
    <2> QED BY <1>1, <1>3, <1>4, <1>5, <1>6, <2>1 DEF RowsKept, ProcessOf, MadeBefore
  <1>8. CASE versions # <<>>
    <2>1. CurrentVersion = SchemaVersion /\ schema = Everything
      BY <1>8, HighestRow DEF MigrationIInv, RowsAreWhole
    <2>2. at'[p] = <<"analyze">>
      BY <1>5, <2>1, VersionAssumption DEF NextVersion
    <2> QED BY <1>1, <1>3, <1>4, <1>8, <2>1, <2>2 DEF RowsKept, ProcessOf
  <1> QED BY <1>7, <1>8

LEMMA StatementKeeps ==
    ASSUME MigrationIInv, NEW p \in Processes, Statement(p)
    PROVE  RowsKept(p)
  <1>1. /\ at = [q \in Processes |-> at[q]]
        /\ versions' = versions /\ existing' = existing /\ current' = current
        /\ current[p] # 0 => versions # <<>>
    BY DEF Statement, MigrationIInv, SchemaTypeOK, ProcessOf
  <1>2. \/ \E number \in 1 .. 5 : /\ at[p] = <<"statement", 1, number>> /\ current[p] = 0
                                  /\ "hands" \in schema => "session_id" \in schema
                                  /\ MadeBefore(number) \subseteq schema
        \/ \E version \in 2 .. SchemaVersion :
              at[p] = <<"statement", version, 1>> /\ current[p] = 0 /\ schema = Everything
    BY DEF Statement, MigrationIInv, ProcessOf
  <1>3. ASSUME schema \subseteq schema', schema' \subseteq Everything,
               ("hands" \in schema => "session_id" \in schema)
                    => ("hands" \in schema' => "session_id" \in schema'),
               NEW step, at' = [at EXCEPT ![p] = step]
        PROVE  SchemaTypeOK' /\ RowsAreWhole' /\ SchemaGrows /\ LocalTo(p) /\ at'[p] = step
    <2>1. schema = Everything => schema' = Everything
      BY <1>3
    <2> QED BY <1>1, <1>3, <2>1 DEF MigrationIInv, SchemaTypeOK, RowsAreWhole, SchemaGrows, LocalTo
  <1>4. CASE \E number \in 1 .. 5 : /\ at[p] = <<"statement", 1, number>> /\ current[p] = 0
                                    /\ "hands" \in schema => "session_id" \in schema
                                    /\ MadeBefore(number) \subseteq schema
    <2>1. PICK number \in 1 .. 5 : /\ at[p] = <<"statement", 1, number>> /\ current[p] = 0
                                   /\ "hands" \in schema => "session_id" \in schema
                                   /\ MadeBefore(number) \subseteq schema
      BY <1>4
    <2>2. at[p][2] = 1 /\ at[p][3] = number
      BY <2>1
    <2>3. Statements(1) = <<"hands", "tables", "session_index", "schema_version">>
          /\ Len(Statements(1)) = 4
      BY DEF Statements
    <2>4. CASE number = 5
      <3>1. MadeBefore(5) = {"hands", "tables", "session_index", "schema_version"}
        BY <2>3 DEF MadeBefore
      <3>2. schema = Everything
        BY <2>1, <2>4, <3>1 DEF Everything, MigrationIInv, SchemaTypeOK
      <3>3. at' = [at EXCEPT ![p] = NextVersion(p, 2)] /\ schema' = schema
        <4>1. at[p][3] = 5 /\ at[p][2] = 1 /\ at[p][2] + 1 = 2 /\ Len(Statements(1)) = 4
          BY <2>2, <2>3, <2>4
        <4>2. at' = [at EXCEPT ![p] = NextVersion(p, at[p][2] + 1)] /\ schema' = schema
          BY <4>1 DEF Statement, ToStep
        <4> QED BY <4>1, <4>2
      <3>4. SchemaTypeOK' /\ RowsAreWhole' /\ SchemaGrows /\ LocalTo(p) /\ at'[p] = NextVersion(p, 2)
        BY <1>3, <3>2, <3>3
      <3>5. ProcessOf(p)'
        BY <1>1, <2>1, <3>2, <3>3, <3>4, VersionAssumption DEF ProcessOf, NextVersion
      <3> QED BY <3>4, <3>5 DEF RowsKept
    <2>5. CASE number \in 1 .. 4
      <3> DEFINE object == Statements(1)[number]
      <3>1. object \in {"hands", "tables", "session_index", "schema_version"}
        BY <2>3, <2>5
      <3>2. \/ /\ schema' = schema \cup Makes(object)
               /\ at' = [at EXCEPT ![p] = <<"statement", 1, number + 1>>]
            \/ schema' = schema /\ at' = [at EXCEPT ![p] = <<"failed">>]
        BY <2>2, <2>3, <2>5 DEF Statement, ToStep
      <3>3. CASE schema' = schema /\ at' = [at EXCEPT ![p] = <<"failed">>]
        <4>1. SchemaTypeOK' /\ RowsAreWhole' /\ SchemaGrows /\ LocalTo(p) /\ at'[p] = <<"failed">>
          BY <1>3, <3>3 DEF MigrationIInv, SchemaTypeOK
        <4> QED BY <1>1, <4>1 DEF RowsKept, ProcessOf
      <3>4. CASE schema' = schema \cup Makes(object)
                 /\ at' = [at EXCEPT ![p] = <<"statement", 1, number + 1>>]
        <4>1. /\ object \in Makes(object) /\ Makes(object) \subseteq Everything
              /\ "hands" \in Makes(object) =>
                    object = "hands" /\ ("session_id" \in Makes(object) \/ "hands" \in schema)
          BY <3>1 DEF Makes, Everything
        <4>2. schema' \subseteq Everything /\ ("hands" \in schema' => "session_id" \in schema')
          BY <2>1, <3>4, <4>1 DEF MigrationIInv, SchemaTypeOK
        <4>3. /\ SchemaTypeOK' /\ RowsAreWhole' /\ SchemaGrows /\ LocalTo(p)
              /\ at'[p] = <<"statement", 1, number + 1>>
          BY <1>3, <3>4, <4>2
        <4>4. MadeBefore(number + 1) = MadeBefore(number) \cup {object}
          <5>1. 1 .. number + 1 - 1 = (1 .. number - 1) \cup {number}
            BY <2>5
          <5> QED BY <5>1 DEF MadeBefore
        <4>5. MadeBefore(number + 1) \subseteq schema'
          BY <2>1, <3>4, <4>1, <4>4
        <4>6. ProcessOf(p)'
          BY <1>1, <2>1, <2>5, <4>2, <4>3, <4>5 DEF ProcessOf, MadeBefore
        <4> QED BY <4>3, <4>6 DEF RowsKept
      <3> QED BY <3>2, <3>3, <3>4
    <2> QED BY <2>4, <2>5
  <1>5. CASE \E version \in 2 .. SchemaVersion :
                at[p] = <<"statement", version, 1>> /\ current[p] = 0 /\ schema = Everything
    <2>1. PICK version \in 2 .. SchemaVersion :
                at[p] = <<"statement", version, 1>> /\ current[p] = 0 /\ schema = Everything
      BY <1>5
    <2>2. at[p][2] = version /\ at[p][3] = 1
      BY <2>1
    <2>3. Statements(version) = <<>> /\ Len(Statements(version)) = 0
      BY DEF Statements
    <2>4. at' = [at EXCEPT ![p] = NextVersion(p, version + 1)] /\ schema' = schema
      BY <2>2, <2>3 DEF Statement, ToStep
    <2>5. /\ SchemaTypeOK' /\ RowsAreWhole' /\ SchemaGrows /\ LocalTo(p)
          /\ at'[p] = NextVersion(p, version + 1)
      BY <1>3, <2>1, <2>4
    <2>6. ProcessOf(p)'
      BY <1>1, <2>1, <2>4, <2>5, VersionAssumption DEF ProcessOf, NextVersion
    <2> QED BY <2>5, <2>6 DEF RowsKept
  <1> QED BY <1>2, <1>4, <1>5

LEMMA CommitKeeps ==
    ASSUME MigrationIInv, NEW p \in Processes, AnalyzeAndCommit(p)
    PROVE  RowsKept(p)
  <1> DEFINE rows == [i \in 1 .. SchemaVersion - current[p] |-> current[p] + i]
  <1>1. /\ at = [q \in Processes |-> at[q]] /\ versions \in Seq(1 .. SchemaVersion)
        /\ at' = [at EXCEPT ![p] = <<"ready">>] /\ current[p] \in {0, SchemaVersion}
        /\ schema' = schema /\ existing' = existing /\ current' = current
    BY DEF AnalyzeAndCommit, ToStep, MigrationIInv, SchemaTypeOK
  <1>2. schema = Everything /\ (current[p] # 0 => versions # <<>>)
    BY DEF AnalyzeAndCommit, MigrationIInv, ProcessOf
  <1>3. /\ rows \in Seq(1 .. SchemaVersion) /\ Len(rows) = SchemaVersion - current[p]
        /\ current[p] = 0 => rows[SchemaVersion] = SchemaVersion
    <2> DEFINE n == SchemaVersion - current[p]
    <2>1. n \in Nat /\ rows \in [1 .. n -> 1 .. SchemaVersion]
      BY <1>1, VersionAssumption
    <2>2. current[p] = 0 => rows[SchemaVersion] = SchemaVersion
      BY VersionAssumption
    <2> HIDE DEF n, rows
    <2>3. rows \in Seq(1 .. SchemaVersion)
      BY <2>1, SeqDef
    <2>4. 1 .. Len(rows) = 1 .. n /\ Len(rows) \in Nat
      BY <2>1, <2>3, LenProperties
    <2> QED BY <2>1, <2>2, <2>3, <2>4 DEF n
  <1>4. versions' = versions \o rows
    BY DEF AnalyzeAndCommit
  <1> HIDE DEF rows
  <1>5. /\ versions' \in Seq(1 .. SchemaVersion)
        /\ DOMAIN versions' = 1 .. Len(versions) + Len(rows)
        /\ \A i \in 1 .. Len(versions) : versions'[i] = versions[i]
        /\ \A i \in Len(versions) + 1 .. Len(versions) + Len(rows) :
              versions'[i] = rows[i - Len(versions)]
    <2>1. Len(versions) \in Nat /\ Len(rows) \in Nat
      BY <1>1, <1>3, LenProperties
    <2> QED BY <1>1, <1>3, <1>4, <2>1, ConcatProperties, LenProperties
  <1>6. versions' # <<>> /\ SchemaVersion \in ToSet(versions')
    <2>1. CASE current[p] = 0
      <3>1. Len(versions) \in Nat /\ Len(rows) = SchemaVersion
        BY <1>1, <1>3, <2>1, LenProperties, VersionAssumption
      <3>2. /\ Len(versions) + SchemaVersion \in DOMAIN versions'
            /\ versions'[Len(versions) + SchemaVersion] = rows[SchemaVersion]
        <4>1. /\ Len(versions) + SchemaVersion \in Len(versions) + 1 .. Len(versions) + Len(rows)
              /\ Len(versions) + SchemaVersion \in 1 .. Len(versions) + Len(rows)
              /\ Len(versions) + SchemaVersion - Len(versions) = SchemaVersion
          BY <3>1, VersionAssumption
        <4>2. PICK k \in Len(versions) + 1 .. Len(versions) + Len(rows) :
                  k = Len(versions) + SchemaVersion /\ k - Len(versions) = SchemaVersion
          BY <3>1, <4>1, VersionAssumption
        <4>3. versions'[k] = rows[k - Len(versions)]
          BY <1>5
        <4> QED BY <1>5, <4>1, <4>2, <4>3
      <3> QED BY <1>3, <2>1, <3>2 DEF ToSet
    <2>2. CASE versions # <<>>
      <3>1. SchemaVersion \in ToSet(versions) /\ Len(versions) \in Nat /\ Len(rows) \in Nat
            /\ DOMAIN versions = 1 .. Len(versions)
        BY <1>1, <1>3, <2>2, LenProperties DEF MigrationIInv, RowsAreWhole
      <3>2. PICK i \in 1 .. Len(versions) : versions[i] = SchemaVersion
        BY <3>1 DEF ToSet
      <3>3. i \in DOMAIN versions' /\ versions'[i] = SchemaVersion
        <4>1. i \in 1 .. Len(versions) + Len(rows)
          BY <3>1
        <4> QED BY <1>5, <3>2, <4>1
      <3> QED BY <3>3 DEF ToSet
    <2> QED BY <1>2, <2>1, <2>2
  <1>7. SchemaTypeOK' /\ RowsAreWhole' /\ SchemaGrows /\ LocalTo(p)
    BY <1>1, <1>2, <1>5, <1>6 DEF MigrationIInv, SchemaTypeOK, RowsAreWhole, SchemaGrows, LocalTo
  <1>8. ProcessOf(p)'
    BY <1>1, <1>6 DEF ProcessOf
  <1> QED BY <1>7, <1>8 DEF RowsKept

LEMMA DieKeeps ==
    ASSUME MigrationIInv, NEW p \in Processes, Die(p)
    PROVE  RowsKept(p)
  <1>1. /\ at = [q \in Processes |-> at[q]] /\ at' = [at EXCEPT ![p] = <<"closed">>]
        /\ schema' = schema /\ versions' = versions /\ existing' = existing /\ current' = current
        /\ current[p] # 0 => versions # <<>>
    BY DEF Die, ToStep, MigrationIInv, SchemaTypeOK, ProcessOf
  <1>2. SchemaTypeOK' /\ RowsAreWhole' /\ SchemaGrows /\ LocalTo(p)
    BY <1>1 DEF MigrationIInv, SchemaTypeOK, RowsAreWhole, SchemaGrows, LocalTo
  <1>3. ProcessOf(p)'
    BY <1>1 DEF ProcessOf
  <1> QED BY <1>2, <1>3 DEF RowsKept

LEMMA MigrationsKeep == MigrationIInv /\ [MigrationNext]_schemaVars => MigrationIInv'
  <1> SUFFICES ASSUME MigrationIInv, [MigrationNext]_schemaVars PROVE MigrationIInv'
    OBVIOUS
  <1>1. ASSUME NEW p \in Processes, RowsKept(p) PROVE MigrationIInv'
    <2>1. ASSUME NEW q \in Processes \ {p} PROVE ProcessOf(q)'
      <3>1. /\ SchemaGrows /\ schema' \subseteq Everything
            /\ at'[q] = at[q] /\ existing'[q] = existing[q] /\ current'[q] = current[q]
        BY <1>1, <2>1 DEF RowsKept, LocalTo, SchemaTypeOK
      <3> QED BY <3>1, ProcessStays DEF MigrationIInv
    <2> QED BY <1>1, <2>1 DEF RowsKept, MigrationIInv
  <1>2. ASSUME NEW p \in Processes, Open(p) \/ Migrate(p) \/ Die(p) PROVE RowsKept(p)
    BY <1>2, OpenKeeps, AlterKeeps, SelectVersionKeeps, StatementKeeps, CommitKeeps, DieKeeps
       DEF Migrate
  <1>3. CASE MigrationNext
    BY <1>1, <1>2, <1>3 DEF MigrationNext
  <1>4. CASE UNCHANGED schemaVars
    <2>1. /\ schema' = schema /\ versions' = versions /\ at' = at /\ existing' = existing
          /\ current' = current
      BY <1>4 DEF schemaVars
    <2> QED BY <2>1 DEF MigrationIInv, SchemaTypeOK, RowsAreWhole, ProcessOf, MadeBefore
  <1> QED BY <1>3, <1>4

(* A process that has started the store finds every table, the column of   *)
(* the index and the version, however many start at the same time, over a  *)
(* new or an old database, and wherever others died; and a recorded        *)
(* version is always a whole one.                                          *)
THEOREM StoreStartsWhole == MigrationSpec => []SchemaIsWhole
  <1>1. MigrationIInv => SchemaIsWhole
    <2> SUFFICES ASSUME MigrationIInv PROVE SchemaIsWhole
      OBVIOUS
    <2>1. versions # <<>> => schema = Everything /\ CurrentVersion = SchemaVersion
      BY HighestRow DEF MigrationIInv, RowsAreWhole
    <2>2. \A p \in Processes : at[p] = <<"ready">> => versions # <<>>
      BY DEF MigrationIInv, ProcessOf
    <2> QED BY <2>1, <2>2 DEF SchemaIsWhole
  <1> QED BY <1>1, MigrationsStart, MigrationsKeep, PTL DEF MigrationSpec

-----------------------------------------------------------------------------
(* The task queue.                                                         *)

Task(status, started_at, completed_at, result, error, progress) ==
    [status |-> status, started_at |-> started_at, completed_at |-> completed_at,
     result |-> result, error |-> error, progress |-> progress]

TaskRecords == [status : {"pending", "running", "completed", "failed"}, started_at : BOOLEAN,
                completed_at : BOOLEAN, result : BOOLEAN, error : BOOLEAN, progress : BOOLEAN]

RunningTask == Task("running", TRUE, FALSE, FALSE, FALSE, FALSE)

(* What the fields of a task say at every moment agrees.                   *)
TaskSound(task) ==
    /\ task.status = "failed" => ~task.result /\ ~task.progress
    /\ task.status = "completed" => task.started_at /\ ~task.error
    /\ task.completed_at => task.status \in {"completed", "failed"} /\ task.result # task.error

(* What has settled of a task stays.                                       *)
Later(old, new) ==
    /\ old.status \in {"completed", "failed"} => new.status = old.status
    /\ old.completed_at => new.completed_at /\ new.result = old.result /\ new.error = old.error

(* What worker w has assigned of its task, and what it has still to.       *)
HalfWay(task, rest) ==
    \/ rest = Started /\ task = NewTask
    \/ rest = <<Set("started_at")>> /\ task = Task("running", FALSE, FALSE, FALSE, FALSE, FALSE)
    \/ rest \in {<<>>, Completed, Failed} /\ task = RunningTask
    \/ rest = <<Set("result"), Set("completed_at"), Set("progress")>>
       /\ task = Task("completed", TRUE, FALSE, FALSE, FALSE, FALSE)
    \/ rest = <<Set("completed_at"), Set("progress")>>
       /\ task = Task("completed", TRUE, FALSE, TRUE, FALSE, FALSE)
    \/ rest = <<Set("progress")>> /\ task = Task("completed", TRUE, TRUE, TRUE, FALSE, FALSE)
    \/ rest = <<Set("error"), Set("completed_at")>>
       /\ task = Task("failed", TRUE, FALSE, FALSE, FALSE, FALSE)
    \/ rest = <<Set("completed_at")>> /\ task = Task("failed", TRUE, FALSE, FALSE, TRUE, FALSE)

WorkerOf(w) ==
    /\ lock = w <=> todo[w] # <<>>
    /\ job[w] = Nothing => todo[w] = <<>>
    /\ job[w] # Nothing => /\ job[w] \in DOMAIN tasks \ (registered \cup ToSet(pending))
                           /\ HalfWay(tasks[job[w]], todo[w])
                           /\ \A v \in Workers \ {w} : job[v] # job[w]

(* A task waits, runs, or has been run.                                    *)
TaskOf(t) ==
    /\ tasks[t] \in TaskRecords /\ TaskSound(tasks[t])
    /\ t \in registered \cup ToSet(pending) => tasks[t] = NewTask
    /\ tasks[t].status = "pending" =>
          t \in registered \cup ToSet(pending) \cup {job[w] : w \in Workers}

(* What a reader has copied of a task is what the task still says, where   *)
(* the task has settled.                                                   *)
AnswerOf(r) ==
    LET n == Len(answer[r].fields)
        task == tasks[answer[r].task]
    IN  \/ answer[r] = [task |-> Nothing, fields |-> <<>>]
        \/ /\ answer[r].task \in DOMAIN tasks
           /\ n \in 0 .. 6
           /\ \A i \in 2 .. 6 : i <= n => Field(r, i) \in BOOLEAN
           /\ n >= 1 /\ Field(r, 1) = "failed" =>
                 /\ task.status = "failed"
                 /\ n >= 4 => ~Field(r, 4)
                 /\ n >= 6 => ~Field(r, 6)
           /\ n >= 1 /\ Field(r, 1) = "completed" =>
                 /\ task.status = "completed"
                 /\ n >= 2 => Field(r, 2)
                 /\ n >= 5 => ~Field(r, 5)
           /\ n >= 3 /\ Field(r, 3) =>
                 /\ task.completed_at
                 /\ n >= 4 => Field(r, 4) = task.result
                 /\ n >= 5 => Field(r, 5) = task.error

QueueTypeOK ==
    /\ DOMAIN tasks \subseteq Tasks
    /\ tasks \in [DOMAIN tasks -> TaskRecords]
    /\ pending \in Seq(DOMAIN tasks)
    /\ registered \subseteq DOMAIN tasks
    /\ job \in [Workers -> Tasks \cup {Nothing}]
    /\ DOMAIN todo = Workers /\ todo = [w \in Workers |-> todo[w]]
    /\ lock \in Workers \cup {Nothing}
    /\ answer \in [Readers -> [task : Tasks \cup {Nothing},
                               fields : Seq({"pending", "running", "completed", "failed"} \cup BOOLEAN)]]

TaskIInv ==
    /\ QueueTypeOK
    /\ IsInjective(pending)
    /\ registered \cap ToSet(pending) = {}
    /\ \A w \in Workers : WorkerOf(w)
    /\ \A t \in DOMAIN tasks : TaskOf(t)
    /\ \A r \in Readers : AnswerOf(r)

(* The head and the tail of short tuples.                                  *)
LEMMA ShortTuples ==
    ASSUME NEW a, NEW b, NEW c, NEW d
    PROVE  /\ Head(<<a>>) = a /\ Tail(<<a>>) = <<>> /\ Len(<<a>>) = 1
           /\ Head(<<a, b>>) = a /\ Tail(<<a, b>>) = <<b>> /\ Len(<<a, b>>) = 2
           /\ Head(<<a, b, c>>) = a /\ Tail(<<a, b, c>>) = <<b, c>> /\ Len(<<a, b, c>>) = 3
           /\ Head(<<a, b, c, d>>) = a /\ Tail(<<a, b, c, d>>) = <<b, c, d>>
           /\ Len(<<a, b, c, d>>) = 4
  OBVIOUS

(* The stages that assignments lead to, in the order in which they do.     *)
TaskStages ==
    {Task("running", FALSE, FALSE, FALSE, FALSE, FALSE),
     RunningTask,
     Task("completed", TRUE, FALSE, FALSE, FALSE, FALSE),
     Task("failed", TRUE, FALSE, FALSE, FALSE, FALSE),
     Task("completed", TRUE, FALSE, TRUE, FALSE, FALSE),
     Task("completed", TRUE, TRUE, TRUE, FALSE, FALSE),
     Task("completed", TRUE, TRUE, TRUE, FALSE, TRUE),
     Task("failed", TRUE, FALSE, FALSE, TRUE, FALSE),
     Task("failed", TRUE, TRUE, FALSE, TRUE, FALSE)}

LEMMA StagesAreSound ==
    \A task \in TaskStages : task \in TaskRecords /\ TaskSound(task) /\ task.status # "pending"
  <1> DEFINE Begun(task) == task \in TaskRecords /\ TaskSound(task) /\ task.status # "pending"
  <1>1. Begun(Task("running", FALSE, FALSE, FALSE, FALSE, FALSE))
    BY DEF Task, RunningTask, TaskRecords, TaskSound
  <1>2. Begun(RunningTask)
    BY DEF Task, RunningTask, TaskRecords, TaskSound
  <1>3. Begun(Task("completed", TRUE, FALSE, FALSE, FALSE, FALSE))
    BY DEF Task, RunningTask, TaskRecords, TaskSound
  <1>4. Begun(Task("failed", TRUE, FALSE, FALSE, FALSE, FALSE))
    BY DEF Task, RunningTask, TaskRecords, TaskSound
  <1>5. Begun(Task("completed", TRUE, FALSE, TRUE, FALSE, FALSE))
    BY DEF Task, RunningTask, TaskRecords, TaskSound
  <1>6. Begun(Task("completed", TRUE, TRUE, TRUE, FALSE, FALSE))
    BY DEF Task, RunningTask, TaskRecords, TaskSound
  <1>7. Begun(Task("completed", TRUE, TRUE, TRUE, FALSE, TRUE))
    BY DEF Task, RunningTask, TaskRecords, TaskSound
  <1>8. Begun(Task("failed", TRUE, FALSE, FALSE, TRUE, FALSE))
    BY DEF Task, RunningTask, TaskRecords, TaskSound
  <1>9. Begun(Task("failed", TRUE, TRUE, FALSE, TRUE, FALSE))
    BY DEF Task, RunningTask, TaskRecords, TaskSound
  <1> HIDE DEF Begun
  <1>10. \A task \in TaskStages : Begun(task)
    BY <1>1, <1>2, <1>3, <1>4, <1>5, <1>6, <1>7, <1>8, <1>9 DEF TaskStages
  <1> QED BY <1>10 DEF Begun

LEMMA StagesFollow ==
    /\ Later(NewTask, Task("running", FALSE, FALSE, FALSE, FALSE, FALSE))
    /\ Later(Task("running", FALSE, FALSE, FALSE, FALSE, FALSE), RunningTask)
    /\ Later(RunningTask, Task("completed", TRUE, FALSE, FALSE, FALSE, FALSE))
    /\ Later(RunningTask, Task("failed", TRUE, FALSE, FALSE, FALSE, FALSE))
    /\ Later(Task("completed", TRUE, FALSE, FALSE, FALSE, FALSE),
             Task("completed", TRUE, FALSE, TRUE, FALSE, FALSE))
    /\ Later(Task("completed", TRUE, FALSE, TRUE, FALSE, FALSE),
             Task("completed", TRUE, TRUE, TRUE, FALSE, FALSE))
    /\ Later(Task("completed", TRUE, TRUE, TRUE, FALSE, FALSE),
             Task("completed", TRUE, TRUE, TRUE, FALSE, TRUE))
    /\ Later(Task("failed", TRUE, FALSE, FALSE, FALSE, FALSE),
             Task("failed", TRUE, FALSE, FALSE, TRUE, FALSE))
    /\ Later(Task("failed", TRUE, FALSE, FALSE, TRUE, FALSE),
             Task("failed", TRUE, TRUE, FALSE, TRUE, FALSE))
  BY DEF Task, NewTask, RunningTask, Later

(* Assigning the next field leaves a task that is sound, later, and half   *)
(* way to what is still to be assigned.                                    *)
LEMMA AssignNext ==
    ASSUME NEW task, NEW rest, HalfWay(task, rest), rest # <<>>,
           NEW new, new = [task EXCEPT ![Head(rest).field] = Head(rest).value]
    PROVE  /\ new \in TaskRecords /\ TaskSound(new) /\ Later(task, new) /\ new.status # "pending"
           /\ Tail(rest) = <<>> <=> Len(rest) = 1
           /\ (Len(rest) = 1 /\ Head(rest).field # "started_at") \/ HalfWay(new, Tail(rest))
  <1>1. CASE rest = Started /\ task = NewTask
    <2>1. Head(rest) = SetStatus("running") /\ Len(rest) = 2
          /\ Tail(rest) = <<Set("started_at")>> /\ (Tail(rest) = <<>> <=> Len(rest) = 1)
      BY <1>1, ShortTuples DEF Started
    <2>2. Head(rest).field = "status" /\ Head(rest).value = "running"
      BY <2>1 DEF Set, SetStatus
    <2>3. new = Task("running", FALSE, FALSE, FALSE, FALSE, FALSE)
      BY <1>1, <2>2 DEF Task, NewTask, RunningTask
    <2>4. new \in TaskRecords /\ TaskSound(new) /\ Later(task, new) /\ new.status # "pending"
      BY <1>1, <2>3, StagesAreSound, StagesFollow DEF TaskStages
    <2>5. HalfWay(new, Tail(rest))
      BY <2>1, <2>3 DEF HalfWay
    <2> QED BY <2>1, <2>4, <2>5
  <1>2. CASE /\ rest = <<Set("started_at")>>
            /\ task = Task("running", FALSE, FALSE, FALSE, FALSE, FALSE)
    <2>1. Head(rest) = Set("started_at") /\ Len(rest) = 1
          /\ Tail(rest) = <<>> /\ (Tail(rest) = <<>> <=> Len(rest) = 1)
      BY <1>2, ShortTuples
    <2>2. Head(rest).field = "started_at" /\ Head(rest).value = TRUE
      BY <2>1 DEF Set, SetStatus
    <2>3. new = RunningTask
      BY <1>2, <2>2 DEF Task, NewTask, RunningTask
    <2>4. new \in TaskRecords /\ TaskSound(new) /\ Later(task, new) /\ new.status # "pending"
      BY <1>2, <2>3, StagesAreSound, StagesFollow DEF TaskStages
    <2>5. HalfWay(new, Tail(rest))
      BY <2>1, <2>3 DEF HalfWay
    <2> QED BY <2>1, <2>4, <2>5
  <1>3. CASE rest = Completed /\ task = RunningTask
    <2>1. Head(rest) = SetStatus("completed") /\ Len(rest) = 4
          /\ Tail(rest) = <<Set("result"), Set("completed_at"), Set("progress")>>
          /\ (Tail(rest) = <<>> <=> Len(rest) = 1)
      BY <1>3, ShortTuples DEF Completed
    <2>2. Head(rest).field = "status" /\ Head(rest).value = "completed"
      BY <2>1 DEF Set, SetStatus
    <2>3. new = Task("completed", TRUE, FALSE, FALSE, FALSE, FALSE)
      BY <1>3, <2>2 DEF Task, NewTask, RunningTask
    <2>4. new \in TaskRecords /\ TaskSound(new) /\ Later(task, new) /\ new.status # "pending"
      BY <1>3, <2>3, StagesAreSound, StagesFollow DEF TaskStages
    <2>5. HalfWay(new, Tail(rest))
      BY <2>1, <2>3 DEF HalfWay
    <2> QED BY <2>1, <2>4, <2>5
  <1>4. CASE rest = Failed /\ task = RunningTask
    <2>1. Head(rest) = SetStatus("failed") /\ Len(rest) = 3
          /\ Tail(rest) = <<Set("error"), Set("completed_at")>>
          /\ (Tail(rest) = <<>> <=> Len(rest) = 1)
      BY <1>4, ShortTuples DEF Failed
    <2>2. Head(rest).field = "status" /\ Head(rest).value = "failed"
      BY <2>1 DEF Set, SetStatus
    <2>3. new = Task("failed", TRUE, FALSE, FALSE, FALSE, FALSE)
      BY <1>4, <2>2 DEF Task, NewTask, RunningTask
    <2>4. new \in TaskRecords /\ TaskSound(new) /\ Later(task, new) /\ new.status # "pending"
      BY <1>4, <2>3, StagesAreSound, StagesFollow DEF TaskStages
    <2>5. HalfWay(new, Tail(rest))
      BY <2>1, <2>3 DEF HalfWay
    <2> QED BY <2>1, <2>4, <2>5
  <1>5. CASE /\ rest = <<Set("result"), Set("completed_at"), Set("progress")>>
            /\ task = Task("completed", TRUE, FALSE, FALSE, FALSE, FALSE)
    <2>1. Head(rest) = Set("result") /\ Len(rest) = 3
          /\ Tail(rest) = <<Set("completed_at"), Set("progress")>>
          /\ (Tail(rest) = <<>> <=> Len(rest) = 1)
      BY <1>5, ShortTuples
    <2>2. Head(rest).field = "result" /\ Head(rest).value = TRUE
      BY <2>1 DEF Set, SetStatus
    <2>3. new = Task("completed", TRUE, FALSE, TRUE, FALSE, FALSE)
      BY <1>5, <2>2 DEF Task, NewTask, RunningTask
    <2>4. new \in TaskRecords /\ TaskSound(new) /\ Later(task, new) /\ new.status # "pending"
      BY <1>5, <2>3, StagesAreSound, StagesFollow DEF TaskStages
    <2>5. HalfWay(new, Tail(rest))
      BY <2>1, <2>3 DEF HalfWay
    <2> QED BY <2>1, <2>4, <2>5
  <1>6. CASE /\ rest = <<Set("completed_at"), Set("progress")>>
            /\ task = Task("completed", TRUE, FALSE, TRUE, FALSE, FALSE)
    <2>1. Head(rest) = Set("completed_at") /\ Len(rest) = 2
          /\ Tail(rest) = <<Set("progress")>> /\ (Tail(rest) = <<>> <=> Len(rest) = 1)
      BY <1>6, ShortTuples
    <2>2. Head(rest).field = "completed_at" /\ Head(rest).value = TRUE
      BY <2>1 DEF Set, SetStatus
    <2>3. new = Task("completed", TRUE, TRUE, TRUE, FALSE, FALSE)
      BY <1>6, <2>2 DEF Task, NewTask, RunningTask
    <2>4. new \in TaskRecords /\ TaskSound(new) /\ Later(task, new) /\ new.status # "pending"
      BY <1>6, <2>3, StagesAreSound, StagesFollow DEF TaskStages
    <2>5. HalfWay(new, Tail(rest))
      BY <2>1, <2>3 DEF HalfWay
    <2> QED BY <2>1, <2>4, <2>5
  <1>7. CASE /\ rest = <<Set("progress")>>
            /\ task = Task("completed", TRUE, TRUE, TRUE, FALSE, FALSE)
    <2>1. Head(rest) = Set("progress") /\ Len(rest) = 1
          /\ Tail(rest) = <<>> /\ (Tail(rest) = <<>> <=> Len(rest) = 1)
      BY <1>7, ShortTuples
    <2>2. Head(rest).field = "progress" /\ Head(rest).value = TRUE
      BY <2>1 DEF Set, SetStatus
    <2>3. new = Task("completed", TRUE, TRUE, TRUE, FALSE, TRUE)
      BY <1>7, <2>2 DEF Task, NewTask, RunningTask
    <2>4. new \in TaskRecords /\ TaskSound(new) /\ Later(task, new) /\ new.status # "pending"
      BY <1>7, <2>3, StagesAreSound, StagesFollow DEF TaskStages
    <2>5. Len(rest) = 1 /\ Head(rest).field # "started_at"
      BY <2>1, <2>2
    <2> QED BY <2>1, <2>4, <2>5
  <1>8. CASE /\ rest = <<Set("error"), Set("completed_at")>>
            /\ task = Task("failed", TRUE, FALSE, FALSE, FALSE, FALSE)
    <2>1. Head(rest) = Set("error") /\ Len(rest) = 2
          /\ Tail(rest) = <<Set("completed_at")>> /\ (Tail(rest) = <<>> <=> Len(rest) = 1)
      BY <1>8, ShortTuples
    <2>2. Head(rest).field = "error" /\ Head(rest).value = TRUE
      BY <2>1 DEF Set, SetStatus
    <2>3. new = Task("failed", TRUE, FALSE, FALSE, TRUE, FALSE)
      BY <1>8, <2>2 DEF Task, NewTask, RunningTask
    <2>4. new \in TaskRecords /\ TaskSound(new) /\ Later(task, new) /\ new.status # "pending"
      BY <1>8, <2>3, StagesAreSound, StagesFollow DEF TaskStages
    <2>5. HalfWay(new, Tail(rest))
      BY <2>1, <2>3 DEF HalfWay
    <2> QED BY <2>1, <2>4, <2>5
  <1>9. CASE /\ rest = <<Set("completed_at")>>
            /\ task = Task("failed", TRUE, FALSE, FALSE, TRUE, FALSE)
    <2>1. Head(rest) = Set("completed_at") /\ Len(rest) = 1
          /\ Tail(rest) = <<>> /\ (Tail(rest) = <<>> <=> Len(rest) = 1)
      BY <1>9, ShortTuples
    <2>2. Head(rest).field = "completed_at" /\ Head(rest).value = TRUE
      BY <2>1 DEF Set, SetStatus
    <2>3. new = Task("failed", TRUE, TRUE, FALSE, TRUE, FALSE)
      BY <1>9, <2>2 DEF Task, NewTask, RunningTask
    <2>4. new \in TaskRecords /\ TaskSound(new) /\ Later(task, new) /\ new.status # "pending"
      BY <1>9, <2>3, StagesAreSound, StagesFollow DEF TaskStages
    <2>5. Len(rest) = 1 /\ Head(rest).field # "started_at"
      BY <2>1, <2>2
    <2> QED BY <2>1, <2>4, <2>5
  <1> QED BY <1>1, <1>2, <1>3, <1>4, <1>5, <1>6, <1>7, <1>8, <1>9 DEF HalfWay

LEMMA QueueStarts == TaskInit => TaskIInv
  <1> SUFFICES ASSUME TaskInit PROVE TaskIInv
    OBVIOUS
  <1>1. DOMAIN tasks = {} /\ tasks \in [DOMAIN tasks -> TaskRecords]
    BY DEF TaskInit
  <1>2. QueueTypeOK
    BY <1>1 DEF TaskInit, QueueTypeOK
  <1>3. IsInjective(pending) /\ registered \cap ToSet(pending) = {}
    BY DEF TaskInit, IsInjective
  <1>4. \A w \in Workers : WorkerOf(w)
    BY NothingAssumption DEF TaskInit, WorkerOf
  <1>5. \A r \in Readers : AnswerOf(r)
    BY DEF TaskInit, AnswerOf
  <1> QED BY <1>1, <1>2, <1>3, <1>4, <1>5 DEF TaskIInv

(* What a reader has copied stays true while tasks go on.                  *)
LEMMA AnswersStay ==
    ASSUME TaskIInv, answer' = answer,
           \A t \in DOMAIN tasks : t \in DOMAIN tasks' /\ Later(tasks[t], tasks'[t])
    PROVE  \A r \in Readers : AnswerOf(r)'
  <1> SUFFICES ASSUME NEW r \in Readers, answer[r].task \in DOMAIN tasks, AnswerOf(r)
               PROVE  AnswerOf(r)'
    BY DEF TaskIInv, AnswerOf
  <1>1. answer[r].task \in DOMAIN tasks' /\ Later(tasks[answer[r].task], tasks'[answer[r].task])
    OBVIOUS
  <1> QED BY <1>1 DEF AnswerOf, Later, Field

LEMMA RegisterKeeps ==
    ASSUME TaskIInv, NEW t \in Tasks, Register(t)
    PROVE  TaskIInv'
  <1>1. /\ DOMAIN tasks' = DOMAIN tasks \cup {t} /\ t \notin DOMAIN tasks
        /\ tasks'[t] = NewTask /\ \A u \in DOMAIN tasks : tasks'[u] = tasks[u]
        /\ registered' = registered \cup {t}
        /\ pending' = pending /\ lock' = lock /\ job' = job /\ todo' = todo /\ answer' = answer
    BY DEF Register
  <1>2. NewTask \in TaskRecords /\ TaskSound(NewTask)
    BY DEF NewTask, TaskRecords, TaskSound
  <1>3. ToSet(pending) \subseteq DOMAIN tasks
    BY ToSetTyped DEF TaskIInv, QueueTypeOK
  <1>4. QueueTypeOK'
    <2>1. tasks' \in [DOMAIN tasks' -> TaskRecords]
      BY <1>2 DEF Register, TaskIInv, QueueTypeOK
    <2>2. pending' \in Seq(DOMAIN tasks')
      BY <1>1, SeqMonotonic DEF TaskIInv, QueueTypeOK
    <2> QED BY <1>1, <2>1, <2>2 DEF TaskIInv, QueueTypeOK
  <1>5. IsInjective(pending') /\ registered' \cap ToSet(pending') = {}
    BY <1>1, <1>3 DEF TaskIInv
  <1>6. \A w \in Workers : WorkerOf(w)'
    BY <1>1 DEF TaskIInv, WorkerOf
  <1>7. \A u \in DOMAIN tasks' : TaskOf(u)'
    BY <1>1, <1>2 DEF TaskIInv, TaskOf
  <1>8. \A r \in Readers : AnswerOf(r)'
    BY <1>1, AnswersStay DEF Later
  <1> QED BY <1>4, <1>5, <1>6, <1>7, <1>8 DEF TaskIInv

LEMMA EnqueueKeeps ==
    ASSUME TaskIInv, NEW t \in Tasks, Enqueue(t)
    PROVE  TaskIInv'
  <1>1. /\ t \in registered /\ t \in DOMAIN tasks /\ pending \in Seq(DOMAIN tasks)
        /\ pending' = Append(pending, t) /\ registered' = registered \ {t} /\ tasks' = tasks
        /\ lock' = lock /\ job' = job /\ todo' = todo /\ answer' = answer
    BY DEF Enqueue, TaskIInv, QueueTypeOK
  <1>2. /\ pending' \in Seq(DOMAIN tasks) /\ ToSet(pending') = ToSet(pending) \cup {t}
        /\ IsInjective(pending')
    BY <1>1, ToSetAppend DEF TaskIInv
  <1>3. QueueTypeOK'
    BY <1>1, <1>2 DEF TaskIInv, QueueTypeOK
  <1>4. registered' \cap ToSet(pending') = {}
        /\ registered' \cup ToSet(pending') = registered \cup ToSet(pending)
    BY <1>1, <1>2 DEF TaskIInv
  <1>5. \A w \in Workers : WorkerOf(w)'
    BY <1>1, <1>4 DEF TaskIInv, WorkerOf
  <1>6. \A u \in DOMAIN tasks' : TaskOf(u)'
    BY <1>1, <1>4 DEF TaskIInv, TaskOf
  <1>7. \A r \in Readers : AnswerOf(r)'
    BY <1>1, AnswersStay DEF Later
  <1> QED BY <1>2, <1>3, <1>4, <1>5, <1>6, <1>7 DEF TaskIInv

LEMMA NeverEmpty == Started # <<>> /\ Completed # <<>> /\ Failed # <<>>
  <1>1. Started # <<>>
    BY DEF Started
  <1>2. Completed # <<>>
    BY DEF Completed
  <1>3. Failed # <<>>
    BY DEF Failed
  <1> QED BY <1>1, <1>2, <1>3

LEMMA TakeKeeps ==
    ASSUME TaskIInv, NEW w \in Workers, Take(w)
    PROVE  TaskIInv'
  <1> DEFINE t == Head(pending)
  <1>1. /\ pending \in Seq(DOMAIN tasks) /\ pending # <<>> /\ pending' = Tail(pending)
        /\ job[w] = Nothing /\ lock = Nothing
        /\ tasks' = tasks /\ registered' = registered /\ answer' = answer
    BY DEF Take, TaskIInv, QueueTypeOK
  <1>2. /\ pending' \in Seq(DOMAIN tasks) /\ t \in DOMAIN tasks
        /\ ToSet(pending) = ToSet(pending') \cup {t}
        /\ IsInjective(pending') /\ t \notin ToSet(pending')
    <2>1. IsInjective(pending)
      BY DEF TaskIInv
    <2>2. PICK q \in Seq(DOMAIN tasks) : q = pending /\ q # <<>>
      BY <1>1
    <2>3. /\ Tail(q) \in Seq(DOMAIN tasks) /\ Head(q) \in DOMAIN tasks
          /\ ToSet(q) = ToSet(Tail(q)) \cup {Head(q)}
          /\ IsInjective(q) => IsInjective(Tail(q)) /\ Head(q) \notin ToSet(Tail(q))
      BY <2>2, ToSetTail
    <2> QED BY <1>1, <2>1, <2>2, <2>3
  <1>3. /\ lock' = w /\ job' = [job EXCEPT ![w] = t] /\ todo' = [todo EXCEPT ![w] = Started]
        /\ job \in [Workers -> Tasks \cup {Nothing}] /\ todo = [v \in Workers |-> todo[v]]
        /\ t \in Tasks /\ t # Nothing /\ w # Nothing
    <2>1. lock' = w /\ job' = [job EXCEPT ![w] = t] /\ todo' = [todo EXCEPT ![w] = Started]
      BY <1>2 DEF Take
    <2>2. /\ job \in [Workers -> Tasks \cup {Nothing}] /\ todo = [v \in Workers |-> todo[v]]
          /\ DOMAIN tasks \subseteq Tasks
      BY DEF TaskIInv, QueueTypeOK
    <2> QED BY <1>2, <2>1, <2>2, NothingAssumption
  <1>4. /\ lock' \in Workers /\ job' \in [Workers -> Tasks \cup {Nothing}]
        /\ todo' = [v \in Workers |-> todo'[v]] /\ DOMAIN todo' = Workers
    BY <1>3
  <1>5. QueueTypeOK'
    BY <1>1, <1>2, <1>4 DEF TaskIInv, QueueTypeOK
  <1>6. t \notin registered /\ tasks[t] = NewTask /\ \A v \in Workers : job[v] # t
    BY <1>2, <1>3 DEF TaskIInv, TaskOf, WorkerOf
  <1>7. \A v \in Workers : WorkerOf(v)'
    <2>1. ASSUME NEW v \in Workers \ {w} PROVE WorkerOf(v)'
      <3>1. job'[v] = job[v] /\ todo'[v] = todo[v] /\ todo[v] = <<>> /\ WorkerOf(v) /\ v # Nothing
        BY <1>1, <1>3, NothingAssumption DEF TaskIInv, WorkerOf
      <3>2. \A u \in Workers : job'[u] = IF u = w THEN t ELSE job[u]
        BY <1>3
      <3> QED BY <1>1, <1>2, <1>3, <1>6, <3>1, <3>2 DEF WorkerOf
    <2>2. WorkerOf(w)'
      <3>1. job'[w] = t /\ todo'[w] = Started /\ Started # <<>>
            /\ \A v \in Workers \ {w} : job'[v] = job[v]
        BY <1>3 DEF Started
      <3>2. HalfWay(NewTask, Started)
        BY DEF HalfWay
      <3> QED BY <1>1, <1>2, <1>3, <1>6, <3>1, <3>2 DEF WorkerOf
    <2> QED BY <2>1, <2>2
  <1>8. \A u \in DOMAIN tasks' : TaskOf(u)'
    <2>1. {job[v] : v \in Workers} \subseteq {job'[v] : v \in Workers} \cup {Nothing}
          /\ t \in {job'[v] : v \in Workers}
      BY <1>1, <1>3
    <2>2. Nothing \notin DOMAIN tasks
      BY NothingAssumption DEF TaskIInv, QueueTypeOK
    <2> QED BY <1>1, <1>2, <2>1, <2>2 DEF TaskIInv, TaskOf
  <1>9. \A r \in Readers : AnswerOf(r)'
    BY <1>1, AnswersStay DEF Later
  <1> QED BY <1>1, <1>2, <1>5, <1>7, <1>8, <1>9 DEF TaskIInv

LEMMA AssignKeeps ==
    ASSUME TaskIInv, NEW w \in Workers, Assign(w)
    PROVE  TaskIInv'
  <1> PICK t : t = job[w]
    OBVIOUS
  <1> PICK rest : rest = todo[w]
    OBVIOUS
  <1> DEFINE ends == Len(rest) = 1 /\ Head(rest).field # "started_at"
  <1>1. /\ lock = w /\ rest # <<>> /\ w # Nothing /\ t # Nothing
        /\ t \in DOMAIN tasks \ (registered \cup ToSet(pending)) /\ HalfWay(tasks[t], rest)
        /\ \A v \in Workers \ {w} : job[v] # t /\ todo[v] = <<>>
    BY NothingAssumption DEF Assign, TaskIInv, WorkerOf
  <1>2. /\ tasks' = [tasks EXCEPT ![t] = [tasks[t] EXCEPT ![Head(rest).field] = Head(rest).value]]
        /\ todo' = [todo EXCEPT ![w] = Tail(rest)]
        /\ lock' = IF Len(rest) = 1 THEN Nothing ELSE w
        /\ job' = IF ends THEN [job EXCEPT ![w] = Nothing] ELSE job
        /\ pending' = pending /\ registered' = registered /\ answer' = answer
    BY DEF Assign
  <1>3. /\ DOMAIN tasks \subseteq Tasks /\ tasks \in [DOMAIN tasks -> TaskRecords]
        /\ job \in [Workers -> Tasks \cup {Nothing}] /\ todo = [v \in Workers |-> todo[v]]
    BY DEF TaskIInv, QueueTypeOK
  <1> HIDE DEF ends
  <1>4. /\ tasks'[t] \in TaskRecords /\ TaskSound(tasks'[t]) /\ Later(tasks[t], tasks'[t])
        /\ tasks'[t].status # "pending"
        /\ Tail(rest) = <<>> <=> Len(rest) = 1
        /\ ends \/ HalfWay(tasks'[t], Tail(rest))
    <2>1. tasks'[t] = [tasks[t] EXCEPT ![Head(rest).field] = Head(rest).value]
      BY <1>1, <1>2, <1>3
    <2>2. ASSUME NEW task, task = tasks[t], NEW new, new = tasks'[t]
          PROVE  /\ new \in TaskRecords /\ TaskSound(new) /\ Later(task, new)
                 /\ new.status # "pending"
                 /\ Tail(rest) = <<>> <=> Len(rest) = 1
                 /\ ends \/ HalfWay(new, Tail(rest))
      <3>1. /\ HalfWay(task, rest) /\ rest # <<>>
            /\ new = [task EXCEPT ![Head(rest).field] = Head(rest).value]
        BY <1>1, <2>1, <2>2
      <3> QED BY <3>1, AssignNext DEF ends
    <2> QED BY <2>2
  <1>5. /\ DOMAIN tasks' = DOMAIN tasks /\ \A u \in DOMAIN tasks \ {t} : tasks'[u] = tasks[u]
        /\ tasks' \in [DOMAIN tasks -> TaskRecords]
    BY <1>1, <1>2, <1>3, <1>4
  <1>6. /\ todo'[w] = Tail(rest) /\ \A v \in Workers \ {w} : todo'[v] = todo[v]
        /\ todo' = [v \in Workers |-> todo'[v]] /\ DOMAIN todo' = Workers
        /\ job'[w] = (IF ends THEN Nothing ELSE t) /\ \A v \in Workers \ {w} : job'[v] = job[v]
        /\ job' \in [Workers -> Tasks \cup {Nothing}] /\ lock' \in Workers \cup {Nothing}
    BY <1>2, <1>3
  <1>7. QueueTypeOK'
    BY <1>2, <1>5, <1>6 DEF TaskIInv, QueueTypeOK
  <1>8. \A v \in Workers : WorkerOf(v)'
    <2>1. ASSUME NEW v \in Workers \ {w} PROVE WorkerOf(v)'
      <3>1. job'[v] = job[v] /\ todo'[v] = <<>> /\ WorkerOf(v) /\ lock' # v /\ job[v] # t
        BY <1>1, <1>2, <1>6, NothingAssumption DEF TaskIInv
      <3>2. job[v] # Nothing => tasks'[job[v]] = tasks[job[v]] /\ job[v] \in DOMAIN tasks'
        BY <1>5, <3>1 DEF WorkerOf
      <3>3. \A u \in Workers \ {v} : job[v] # Nothing => job'[u] # job[v]
        BY <1>1, <1>6, <3>1 DEF WorkerOf
      <3>4. todo[v] = todo'[v]
        BY <1>6
      <3> QED BY <1>1, <1>2, <3>1, <3>2, <3>3, <3>4 DEF WorkerOf
    <2>2. WorkerOf(w)'
      <3>1. lock' = w <=> todo'[w] # <<>>
        BY <1>1, <1>2, <1>4, <1>6
      <3>2. ends => Tail(rest) = <<>>
        BY <1>4 DEF ends
      <3> QED BY <1>1, <1>2, <1>4, <1>5, <1>6, <3>1, <3>2 DEF WorkerOf
    <2> QED BY <2>1, <2>2
  <1>9. \A u \in DOMAIN tasks' : TaskOf(u)'
    <2>1. ASSUME NEW u \in DOMAIN tasks \ {t} PROVE TaskOf(u)'
      <3>1. TaskOf(u) /\ tasks'[u] = tasks[u]
        BY <1>5 DEF TaskIInv
      <3>2. u \in {job[v] : v \in Workers} => u \in {job'[v] : v \in Workers}
        BY <1>6
      <3> QED BY <1>2, <3>1, <3>2 DEF TaskOf
    <2>2. TaskOf(t)'
      BY <1>1, <1>2, <1>4 DEF TaskOf
    <2> QED BY <1>5, <2>1, <2>2
  <1>10. \A r \in Readers : AnswerOf(r)'
    <2>1. \A u \in DOMAIN tasks : u \in DOMAIN tasks' /\ Later(tasks[u], tasks'[u])
      BY <1>4, <1>5 DEF Later
    <2> QED BY <1>2, <2>1, AnswersStay
  <1> QED BY <1>2, <1>7, <1>8, <1>9, <1>10 DEF TaskIInv

(* The function of a task has returned or raised: the worker takes the     *)
(* lock and has the outcome to assign.                                     *)
LEMMA OutcomeKeeps ==
    ASSUME TaskIInv, NEW w \in Workers, Return(w) \/ RaiseException(w)
    PROVE  TaskIInv'
  <1>1. PICK outcome \in {Completed, Failed} : todo' = [todo EXCEPT ![w] = outcome]
    BY DEF Return, RaiseException
  <1>2. /\ job[w] # Nothing /\ todo[w] = <<>> /\ lock = Nothing /\ lock' = w
        /\ tasks' = tasks /\ pending' = pending /\ registered' = registered /\ job' = job
        /\ answer' = answer
    BY DEF Return, RaiseException, Runs
  <1>3. todo = [v \in Workers |-> todo[v]] /\ outcome # <<>>
    BY NeverEmpty DEF TaskIInv, QueueTypeOK
  <1>4. QueueTypeOK'
    BY <1>1, <1>2, <1>3 DEF TaskIInv, QueueTypeOK
  <1>5. \A v \in Workers : WorkerOf(v)'
    <2>1. ASSUME NEW v \in Workers \ {w} PROVE WorkerOf(v)'
      <3>1. WorkerOf(v) /\ todo'[v] = todo[v] /\ todo[v] = <<>>
        BY <1>1, <1>2, <1>3, NothingAssumption DEF TaskIInv, WorkerOf
      <3> QED BY <1>2, <3>1 DEF WorkerOf
    <2>2. WorkerOf(w)'
      <3>1. tasks[job[w]] = RunningTask
        <4>1. HalfWay(tasks[job[w]], <<>>)
          BY <1>2 DEF TaskIInv, WorkerOf
        <4> QED BY <4>1, NeverEmpty DEF HalfWay
      <3>2. HalfWay(tasks[job[w]], outcome)
        BY <3>1 DEF HalfWay
      <3>3. todo'[w] = outcome
        BY <1>1, <1>3
      <3> QED BY <1>2, <1>3, <3>2, <3>3 DEF TaskIInv, WorkerOf
    <2> QED BY <2>1, <2>2
  <1>6. \A u \in DOMAIN tasks' : TaskOf(u)'
    BY <1>2 DEF TaskIInv, TaskOf
  <1>7. \A r \in Readers : AnswerOf(r)'
    BY <1>2, AnswersStay DEF Later
  <1> QED BY <1>2, <1>4, <1>5, <1>6, <1>7 DEF TaskIInv

LEMMA BaseExceptionKeeps ==
    ASSUME TaskIInv, NEW w \in Workers, RaiseBaseException(w)
    PROVE  TaskIInv'
  <1>1. /\ job[w] # Nothing /\ todo[w] = <<>> /\ job' = [job EXCEPT ![w] = Nothing]
        /\ job \in [Workers -> Tasks \cup {Nothing}]
        /\ tasks' = tasks /\ pending' = pending /\ registered' = registered /\ lock' = lock
        /\ todo' = todo /\ answer' = answer
    BY DEF RaiseBaseException, Runs, TaskIInv, QueueTypeOK
  <1>2. job'[w] = Nothing /\ \A v \in Workers \ {w} : job'[v] = job[v]
    BY <1>1
  <1>3. QueueTypeOK'
    BY <1>1 DEF TaskIInv, QueueTypeOK
  <1>4. \A v \in Workers : WorkerOf(v)'
    BY <1>1, <1>2 DEF TaskIInv, WorkerOf
  <1>5. tasks[job[w]].status # "pending"
    <2>1. tasks[job[w]] = RunningTask
      <3>1. HalfWay(tasks[job[w]], <<>>)
        BY <1>1 DEF TaskIInv, WorkerOf
      <3> QED BY <3>1, NeverEmpty DEF HalfWay
    <2> QED BY <2>1 DEF RunningTask, Task
  <1>6. \A u \in DOMAIN tasks' : TaskOf(u)'
    BY <1>1, <1>2, <1>5 DEF TaskIInv, TaskOf
  <1>7. \A r \in Readers : AnswerOf(r)'
    BY <1>1, AnswersStay DEF Later
  <1> QED BY <1>1, <1>3, <1>4, <1>6, <1>7 DEF TaskIInv

(* A request for a task changes nothing but its own answer.                *)
LEMMA ReaderKeeps ==
    ASSUME TaskIInv, NEW r \in Readers, NEW reply,
           reply \in [task : Tasks \cup {Nothing},
                      fields : Seq({"pending", "running", "completed", "failed"} \cup BOOLEAN)],
           answer' = [answer EXCEPT ![r] = reply], AnswerOf(r)',
           UNCHANGED <<tasks, pending, lock, job, todo, registered>>
    PROVE  TaskIInv'
  <1>1. /\ tasks' = tasks /\ pending' = pending /\ registered' = registered /\ lock' = lock
        /\ todo' = todo /\ job' = job
    OBVIOUS
  <1>2. QueueTypeOK'
    BY <1>1 DEF TaskIInv, QueueTypeOK
  <1>3. ASSUME NEW q \in Readers \ {r} PROVE AnswerOf(q)'
    <2>1. answer'[q] = answer[q] /\ AnswerOf(q)
      BY DEF TaskIInv, QueueTypeOK
    <2> QED BY <1>1, <2>1 DEF AnswerOf, Field
  <1>4. \A v \in Workers : WorkerOf(v)'
    BY <1>1 DEF TaskIInv, WorkerOf
  <1>5. \A u \in DOMAIN tasks' : TaskOf(u)'
    BY <1>1 DEF TaskIInv, TaskOf
  <1> QED BY <1>1, <1>2, <1>3, <1>4, <1>5 DEF TaskIInv

LEMMA GetTaskKeeps ==
    ASSUME TaskIInv, NEW r \in Readers, NEW t \in Tasks, GetTask(r, t)
    PROVE  TaskIInv'
  <1> DEFINE reply == [task |-> t, fields |-> <<>>]
  <1>1. /\ answer' = [answer EXCEPT ![r] = reply]
        /\ UNCHANGED <<tasks, pending, lock, job, todo, registered>>
    BY DEF GetTask
  <1>2. answer'[r] = reply /\ t \in DOMAIN tasks'
    BY DEF GetTask, TaskIInv, QueueTypeOK
  <1>3. AnswerOf(r)'
    BY <1>2 DEF AnswerOf
  <1>4. <<>> \in Seq({"pending", "running", "completed", "failed"} \cup BOOLEAN)
    BY EmptySeq
  <1> QED BY <1>1, <1>3, <1>4, ReaderKeeps

LEMMA CopyFieldKeeps ==
    ASSUME TaskIInv, NEW r \in Readers, CopyField(r)
    PROVE  TaskIInv'
  <1> DEFINE FieldValues == {"pending", "running", "completed", "failed"} \cup BOOLEAN
  <1>1. PICK t, n, fields : t = answer[r].task /\ fields = answer[r].fields /\ n = Len(fields)
    OBVIOUS
  <1>2. /\ answer[r] = [task |-> t, fields |-> fields] /\ fields \in Seq(FieldValues)
        /\ t \in DOMAIN tasks /\ n \in 0 .. 5
        /\ tasks[t] \in TaskRecords /\ TaskSound(tasks[t])
    BY <1>1 DEF TaskIInv, QueueTypeOK, AnswerOf, TaskOf, CopyField, Fields
  <1>3. PICK value : value = tasks[t][Fields[n + 1]]
    OBVIOUS
  <1>4. answer' = [answer EXCEPT ![r] = [task |-> t, fields |-> Append(fields, value)]]
        /\ UNCHANGED <<tasks, pending, lock, job, todo, registered>>
    <2>1. answer' = [answer EXCEPT ![r] = [answer[r] EXCEPT !.fields = Append(fields, value)]]
      <3> HIDE DEF Fields
      <3>1. answer' = [answer EXCEPT ![r].fields = Append(@, tasks[t][Fields[n + 1]])]
        BY <1>1 DEF CopyField
      <3> QED BY <1>1, <1>3, <3>1
    <2>2. [answer[r] EXCEPT !.fields = Append(fields, value)]
          = [task |-> t, fields |-> Append(fields, value)]
      BY <1>2
    <2> QED BY <2>1, <2>2 DEF CopyField
  <1>5. /\ n = 0 => value = tasks[t].status
        /\ n = 1 => value = tasks[t].started_at
        /\ n = 2 => value = tasks[t].completed_at
        /\ n = 3 => value = tasks[t].result
        /\ n = 4 => value = tasks[t].error
        /\ n = 5 => value = tasks[t].progress
    BY <1>2, <1>3 DEF Fields
  <1>6. value \in FieldValues /\ (n > 0 => value \in BOOLEAN)
    BY <1>2, <1>5 DEF TaskRecords
  <1>7. /\ Append(fields, value) \in Seq(FieldValues) /\ Len(Append(fields, value)) = n + 1
        /\ \A i \in 1 .. n : Append(fields, value)[i] = fields[i]
        /\ Append(fields, value)[n + 1] = value
    BY <1>1, <1>2, <1>6, AppendProperties
  <1>8. /\ answer'[r].task = t /\ Len(answer'[r].fields) = n + 1
        /\ \A i \in 1 .. n : Field(r, i)' = Field(r, i)
        /\ Field(r, n + 1)' = value
        /\ tasks' = tasks
    BY <1>1, <1>4, <1>7 DEF Field, TaskIInv, QueueTypeOK
  <1>9. AnswerOf(r)'
    <2> DEFINE old(i) == Field(r, i)
               new(i) == Field(r, i)'
    <2>1. /\ \A i \in 2 .. 6 : i <= n => old(i) \in BOOLEAN
          /\ n >= 1 /\ old(1) = "failed" =>
                tasks[t].status = "failed" /\ (n >= 4 => ~old(4)) /\ (n >= 6 => ~old(6))
          /\ n >= 1 /\ old(1) = "completed" =>
                tasks[t].status = "completed" /\ (n >= 2 => old(2)) /\ (n >= 5 => ~old(5))
          /\ n >= 3 /\ old(3) => /\ tasks[t].completed_at
                                 /\ n >= 4 => old(4) = tasks[t].result
                                 /\ n >= 5 => old(5) = tasks[t].error
      BY <1>1, <1>2 DEF TaskIInv, AnswerOf
    <2>2. /\ \A i \in 1 .. 6 : i <= n => new(i) = old(i)
          /\ new(n + 1) = value
      BY <1>8
    <2> HIDE DEF old, new
    <2>3. \A i \in 2 .. 6 : i <= n + 1 => new(i) \in BOOLEAN
      BY <1>2, <1>6, <2>1, <2>2
    <2>4. n + 1 >= 1 /\ new(1) = "failed" =>
              tasks[t].status = "failed" /\ (n + 1 >= 4 => ~new(4)) /\ (n + 1 >= 6 => ~new(6))
      BY <1>2, <1>5, <2>1, <2>2 DEF TaskSound
    <2>5. n + 1 >= 1 /\ new(1) = "completed" =>
              tasks[t].status = "completed" /\ (n + 1 >= 2 => new(2)) /\ (n + 1 >= 5 => ~new(5))
      BY <1>2, <1>5, <2>1, <2>2 DEF TaskSound
    <2>6. n + 1 >= 3 /\ new(3) => /\ tasks[t].completed_at
                                  /\ n + 1 >= 4 => new(4) = tasks[t].result
                                  /\ n + 1 >= 5 => new(5) = tasks[t].error
      BY <1>2, <1>5, <2>1, <2>2 DEF TaskSound
    <2> USE DEF new
    <2>7. n + 1 \in 0 .. 6
      BY <1>2
    <2> QED BY <1>2, <1>8, <2>3, <2>4, <2>5, <2>6, <2>7 DEF AnswerOf
  <1>10. t \in Tasks
    BY <1>2 DEF TaskIInv, QueueTypeOK
  <1> QED BY <1>4, <1>7, <1>9, <1>10, ReaderKeeps

LEMMA QueueKeeps == TaskIInv /\ [TaskNext]_taskVars => TaskIInv'
  <1> SUFFICES ASSUME TaskIInv, [TaskNext]_taskVars PROVE TaskIInv'
    OBVIOUS
  <1>1. ASSUME NEW t \in Tasks, Register(t) \/ Enqueue(t) PROVE TaskIInv'
    BY <1>1, RegisterKeeps, EnqueueKeeps
  <1>2. ASSUME NEW w \in Workers, Work(w) PROVE TaskIInv'
    BY <1>2, TakeKeeps, AssignKeeps, OutcomeKeeps, BaseExceptionKeeps DEF Work
  <1>3. ASSUME NEW r \in Readers, CopyField(r) \/ \E t \in Tasks : GetTask(r, t) PROVE TaskIInv'
    BY <1>3, CopyFieldKeeps, GetTaskKeeps
  <1>4. CASE TaskNext
    BY <1>1, <1>2, <1>3, <1>4 DEF TaskNext
  <1>5. CASE UNCHANGED taskVars
    <2>1. /\ tasks' = tasks /\ pending' = pending /\ registered' = registered /\ lock' = lock
          /\ todo' = todo /\ job' = job /\ answer' = answer
      BY <1>5 DEF taskVars
    <2>2. \A w \in Workers : WorkerOf(w)'
      BY <2>1 DEF TaskIInv, WorkerOf
    <2>3. \A t \in DOMAIN tasks' : TaskOf(t)'
      BY <2>1 DEF TaskIInv, TaskOf
    <2>4. \A r \in Readers : AnswerOf(r)'
      BY <2>1, AnswersStay DEF Later
    <2> QED BY <2>1, <2>2, <2>3, <2>4 DEF TaskIInv, QueueTypeOK
  <1> QED BY <1>4, <1>5

LEMMA QueueInvariant == TaskSpec => []TaskIInv
  BY QueueStarts, QueueKeeps, PTL DEF TaskSpec

(* The queue, the workers and the lock fit together, for any number of     *)
(* tasks and workers: a task waits, runs or has settled, is run by one     *)
(* worker, and the lock is with a worker that has something to assign.     *)
THEOREM TasksTypeCorrect == TaskSpec => []TasksTypeOK
  <1>1. TaskIInv => TasksTypeOK
    <2> SUFFICES ASSUME TaskIInv PROVE TasksTypeOK
      OBVIOUS
    <2>1. \A i, j \in DOMAIN pending : i # j => pending[i] # pending[j]
      BY DEF TaskIInv, IsInjective
    <2>2. \A w \in Workers, i \in DOMAIN pending : job[w] # pending[i]
      <3>1. ASSUME NEW w \in Workers, NEW i \in DOMAIN pending, job[w] = pending[i] PROVE FALSE
        <4>1. job[w] \in ToSet(pending) /\ job[w] \in Tasks
          BY <3>1, ToSetTyped DEF ToSet, TaskIInv, QueueTypeOK
        <4> QED BY <4>1, NothingAssumption DEF TaskIInv, WorkerOf
      <3> QED BY <3>1
    <2>3. \A w \in Workers : lock = w <=> todo[w] # <<>>
      BY DEF TaskIInv, WorkerOf
    <2>4. \A v, w \in Workers : v # w /\ job[v] # Nothing => job[v] # job[w]
      BY DEF TaskIInv, WorkerOf
    <2>5. \A t \in DOMAIN tasks : tasks[t].status = "pending" =>
              t \in registered \cup ToSet(pending) \cup {job[w] : w \in Workers}
      BY DEF TaskIInv, TaskOf
    <2> QED BY <2>1, <2>2, <2>3, <2>4, <2>5 DEF TasksTypeOK
  <1> QED BY <1>1, QueueInvariant, PTL

(* An answer about a task never mixes two outcomes, although its fields    *)
(* are copied one by one, without the lock, while workers assign them.     *)
THEOREM AnswersAgree == TaskSpec => []OneOutcome
  <1>1. TaskIInv => OneOutcome
    <2> SUFFICES ASSUME TaskIInv, NEW r \in Readers, Answered(r)
                 PROVE  /\ Field(r, 3) => Field(r, 4) # Field(r, 5)
                        /\ Field(r, 1) = "failed" => ~Field(r, 4) /\ ~Field(r, 6)
                        /\ Field(r, 1) = "completed" => Field(r, 2) /\ ~Field(r, 5)
      BY DEF OneOutcome
    <2>1. Len(answer[r].fields) = 6 /\ answer[r].task \in DOMAIN tasks
      <3>1. AnswerOf(r)
        BY DEF TaskIInv
      <3>2. Len(answer[r].fields) = 6
        BY DEF Answered, Fields
      <3>3. answer[r] # [task |-> Nothing, fields |-> <<>>]
        BY <3>2
      <3> QED BY <3>1, <3>2, <3>3 DEF AnswerOf
    <2>2. TaskSound(tasks[answer[r].task])
      <3>1. \A t \in DOMAIN tasks : TaskOf(t)
        BY DEF TaskIInv
      <3> QED BY <2>1, <3>1 DEF TaskOf
    <2>3. AnswerOf(r) /\ answer[r] # [task |-> Nothing, fields |-> <<>>]
      BY <2>1 DEF TaskIInv
    <2>4. Field(r, 3) => Field(r, 4) # Field(r, 5)
      BY <2>1, <2>2, <2>3 DEF AnswerOf, TaskSound
    <2>5. /\ Field(r, 1) = "failed" => ~Field(r, 4) /\ ~Field(r, 6)
          /\ Field(r, 1) = "completed" => Field(r, 2) /\ ~Field(r, 5)
      BY <2>1, <2>3 DEF AnswerOf
    <2> QED BY <2>4, <2>5
  <1> QED BY <1>1, QueueInvariant, PTL

-----------------------------------------------------------------------------
(* The WebSocket manager.                                                  *)

(* What is left of a list is what is not taken out of it, once each.       *)
LEMMA WithoutProperties ==
    ASSUME NEW list \in Seq(Sockets), IsInjective(list), NEW ss
    PROVE  /\ Without(list, ss) \in Seq(Sockets)
           /\ IsInjective(Without(list, ss))
           /\ ToSet(Without(list, ss)) = ToSet(list) \ ss
  <1> DEFINE kept == {i \in DOMAIN list : list[i] \notin ss}
             n == Cardinality(kept)
             upTo(i) == {j \in kept : j <= i}
             place == [i \in kept |-> Cardinality(upTo(i))]
             nth(k) == CHOOSE i \in kept : Cardinality(upTo(i)) = k
  <1>1. /\ DOMAIN list = 1 .. Len(list) /\ Len(list) \in Nat
        /\ \A i \in DOMAIN list : list[i] \in Sockets
        /\ kept \subseteq 1 .. Len(list)
    BY LenProperties, ElementOfSeq
  <1>2. /\ IsFiniteSet(kept) /\ n \in Nat
        /\ \A T \in SUBSET kept : IsFiniteSet(T) /\ Cardinality(T) \in Nat /\ Cardinality(T) <= n
                                  /\ \A U \in SUBSET T : /\ Cardinality(U) <= Cardinality(T)
                                                         /\ Cardinality(U) = Cardinality(T) => U = T
    <2>1. IsFiniteSet(1 .. Len(list))
      BY <1>1, FS_Interval
    <2>2. IsFiniteSet(kept)
      BY <1>1, <2>1, FS_Subset
    <2> HIDE DEF kept
    <2> QED BY <2>2, FS_Subset, FS_CardinalityType
  <1>3. place \in [kept -> 1 .. n]
    <2>1. ASSUME NEW i \in kept PROVE place[i] \in 1 .. n
      <3>1. upTo(i) \in SUBSET kept /\ i \in upTo(i) /\ {} \in SUBSET upTo(i)
        BY <1>1, <2>1
      <3>2. Cardinality(upTo(i)) # 0
        BY <1>2, <3>1, FS_EmptySet
      <3> HIDE DEF kept, n, upTo
      <3> QED BY <1>2, <3>1, <3>2
    <2> QED BY <2>1
  <1>4. \A i, j \in kept : place[i] = place[j] => i = j
    <2>1. ASSUME NEW i \in kept, NEW j \in kept, i < j PROVE place[i] # place[j]
      <3>1. upTo(j) \in SUBSET kept /\ upTo(i) \in SUBSET upTo(j) /\ j \in upTo(j) /\ j \notin upTo(i)
        BY <1>1, <2>1
      <3> HIDE DEF kept, n, upTo
      <3> QED BY <1>2, <2>1, <3>1
    <2>2. \A i, j \in kept : i < j \/ j < i \/ i = j
      BY <1>1
    <2> HIDE DEF kept, place
    <2> QED BY <2>1, <2>2
  <1>5. \A k \in 1 .. n : nth(k) \in kept /\ place[nth(k)] = k
    <2> HIDE DEF kept, n, place
    <2>1. place \in Injection(kept, 1 .. n)
      BY <1>3, <1>4 DEF Injection, IsInjective
    <2>2. IsFiniteSet(1 .. n) /\ Cardinality(1 .. n) = n
      BY <1>2, FS_Interval
    <2>3. place \in Surjection(kept, 1 .. n)
      BY <2>1, <2>2, FS_Injection DEF n
    <2>4. \A k \in 1 .. n : \E i \in kept : place[i] = k
      BY <2>3 DEF Surjection
    <2> USE DEF place
    <2>5. \A i \in kept : place[i] = Cardinality(upTo(i))
      OBVIOUS
    <2> HIDE DEF place, upTo
    <2> QED BY <2>4, <2>5
  <1>6. Without(list, ss) = [k \in 1 .. n |-> list[nth(k)]]
    BY DEF Without
  <1> HIDE DEF nth, place, n
  <1>7. /\ Without(list, ss) \in [1 .. n -> Sockets]
        /\ \A k \in 1 .. n : Without(list, ss)[k] = list[nth(k)]
    BY <1>1, <1>5, <1>6
  <1>8. Without(list, ss) \in Seq(Sockets) /\ DOMAIN Without(list, ss) = 1 .. n
    BY <1>2, <1>7, SeqDef
  <1>9. IsInjective(Without(list, ss))
    BY <1>1, <1>5, <1>7, <1>8 DEF IsInjective
  <1>10. ToSet(Without(list, ss)) \subseteq ToSet(list) \ ss
    BY <1>5, <1>7, <1>8 DEF ToSet
  <1>11. ASSUME NEW i \in kept PROVE list[i] \in ToSet(Without(list, ss))
    <2>1. place[i] \in 1 .. n /\ nth(place[i]) = i
      BY <1>3, <1>4, <1>5
    <2> QED BY <1>7, <1>8, <2>1 DEF ToSet
  <1>12. ToSet(list) \ ss \subseteq ToSet(Without(list, ss))
    BY <1>11 DEF ToSet
  <1> QED BY <1>8, <1>9, <1>10, <1>12

Casts == [running : BOOLEAN, list : Seq(Sockets), at : Nat, failed : SUBSET Sockets, shared : BOOLEAN]

WsTypeOK ==
    /\ members \in Seq(Sockets)
    /\ socket \in [Sockets -> {"new", "accepting", "open", "closed"}]
    /\ gone \subseteq Sockets
    /\ cast \in [Broadcasts -> Casts]
    /\ got \in [Broadcasts -> [Sockets -> Nat]]
    /\ owed \in [Broadcasts -> SUBSET Sockets]

(* A broadcast under way has been sent once to those before its place that *)
(* it owes it to, and to nobody from its place on; while its list is the   *)
(* manager's, it grows with it.  (Of a broadcast with the locals c: o is   *)
(* owed, g is got, list the manager's and away the sockets that have gone.)*)
AllReached(o, g) == \A s \in Sockets : g[s] <= 1 /\ (s \in o => g[s] = 1)

SentBefore(place, list, o, g) ==
    /\ \A s \in Sockets \ ToSet(list) : g[s] = 0
    /\ \A i \in 1 .. Len(list) :
          IF i < place THEN g[list[i]] <= 1 /\ (list[i] \in o => g[list[i]] = 1)
          ELSE g[list[i]] = 0

SentUpTo(list, place, o, g) ==
    /\ place \in 1 .. Len(list)
    /\ IsInjective(list)
    /\ o \subseteq ToSet(list)
    /\ SentBefore(place, list, o, g)

(* One send to s has come back: g counted the sends before it, h after it. *)
SentTo(s, away, g, h) ==
    \A t \in Sockets : h[t] = IF t = s /\ s \notin away THEN g[t] + 1 ELSE g[t]

Fits(c, o, g, list, away) ==
    /\ o \cap away = {}
    /\ c.failed \subseteq away
    /\ \/ c = Idle /\ AllReached(o, g)
       \/ /\ c.running
          /\ c.shared => c.list = list
          /\ SentUpTo(c.list, c.at, o, g)

CastOf(b) == Fits(cast[b], owed[b], got[b], members, gone)

WsIInv == WsTypeOK /\ ListIsAlive /\ \A b \in Broadcasts : CastOf(b)

LEMMA WsStart == WsInit => WsIInv
  <1> SUFFICES ASSUME WsInit PROVE WsIInv
    OBVIOUS
  <1>1. Idle \in Casts
    BY DEF Idle, Casts
  <1>2. WsTypeOK
    BY <1>1 DEF WsInit, WsTypeOK
  <1>3. ListIsAlive
    BY DEF WsInit, ListIsAlive, ToSet, IsInjective
  <1>4. \A b \in Broadcasts : CastOf(b)
    BY DEF WsInit, CastOf, Fits, AllReached, Idle
  <1> QED BY <1>2, <1>3, <1>4 DEF WsIInv

(* Who leaves is no longer owed anything.                                  *)
LEMMA FitsWhenGone ==
    ASSUME NEW c, NEW o, NEW g, NEW list, NEW away, NEW s, Fits(c, o, g, list, away)
    PROVE  Fits(c, o \ {s}, g, list, away \cup {s})
  BY DEF Fits, AllReached, SentUpTo, SentBefore

(* A broadcast may lose the manager's list, and the manager's list change. *)
LEMMA FitsWhenUnshared ==
    ASSUME NEW c \in Casts, NEW o, NEW g, NEW list, NEW away, NEW other,
           Fits(c, o, g, list, away)
    PROVE  /\ [c EXCEPT !.shared = FALSE] \in Casts
           /\ Fits([c EXCEPT !.shared = FALSE], o, g, other, away)
  <1> DEFINE d == [c EXCEPT !.shared = FALSE]
  <1>1. /\ d \in Casts /\ d.running = c.running /\ d.list = c.list /\ d.at = c.at
        /\ d.failed = c.failed /\ d.shared = FALSE
    BY DEF Casts
  <1>2. c = Idle => d = Idle
    <2> HIDE DEF d
    <2>1. d = [running |-> d.running, list |-> d.list, at |-> d.at, failed |-> d.failed,
               shared |-> d.shared]
      BY <1>1 DEF Casts
    <2> QED BY <1>1, <2>1 DEF Idle
  <1> HIDE DEF d
  <1>3. Fits(d, o, g, other, away)
    BY <1>1, <1>2 DEF Fits
  <1> QED BY <1>1, <1>3 DEF d

(* A new connection goes to the end of a shared list, behind the place.    *)
LEMMA SentUpToGrows ==
    ASSUME NEW list \in Seq(Sockets), NEW place, NEW o, NEW g, NEW s \in Sockets,
           s \notin ToSet(list), SentUpTo(list, place, o, g)
    PROVE  SentUpTo(Append(list, s), place, o, g)
  <1> DEFINE longer == Append(list, s)
  <1>1. /\ longer \in Seq(Sockets) /\ Len(list) \in Nat /\ Len(longer) = Len(list) + 1
        /\ \A i \in 1 .. Len(list) : longer[i] = list[i]
        /\ longer[Len(list) + 1] = s
    BY AppendProperties, LenProperties
  <1>2. IsInjective(longer) /\ ToSet(longer) = ToSet(list) \cup {s}
    BY ToSetAppend DEF SentUpTo
  <1>3. g[s] = 0 /\ place \in 1 .. Len(list)
    BY DEF SentUpTo, SentBefore
  <1> HIDE DEF longer
  <1>4. ASSUME NEW i \in 1 .. Len(longer)
        PROVE  IF i < place THEN g[longer[i]] <= 1 /\ (longer[i] \in o => g[longer[i]] = 1)
               ELSE g[longer[i]] = 0
    <2>1. CASE i \in 1 .. Len(list)
      BY <1>1, <2>1 DEF SentUpTo, SentBefore
    <2>2. CASE i = Len(list) + 1
      BY <1>1, <1>3, <2>2
    <2> QED BY <1>1, <2>1, <2>2
  <1>5. SentUpTo(longer, place, o, g)
    BY <1>1, <1>2, <1>3, <1>4 DEF SentUpTo, SentBefore
  <1> QED BY <1>5 DEF longer

LEMMA FitsWhenJoined ==
    ASSUME NEW c \in Casts, NEW o, NEW g, NEW list \in Seq(Sockets), NEW away, NEW s \in Sockets,
           s \notin ToSet(list), Fits(c, o, g, list, away),
           NEW d, d = IF c.shared THEN [c EXCEPT !.list = Append(@, s)] ELSE c
    PROVE  d \in Casts /\ Fits(d, o, g, Append(list, s), away)
  <1>1. CASE ~c.shared
    BY <1>1 DEF Fits
  <1>2. CASE c.shared
    <2>1. c # Idle
      BY <1>2 DEF Idle
    <2>2. c.running /\ c.list = list /\ SentUpTo(c.list, c.at, o, g)
      BY <1>2, <2>1 DEF Fits
    <2>3. SentUpTo(Append(c.list, s), c.at, o, g)
      BY <2>2, SentUpToGrows
    <2>4. Append(c.list, s) \in Seq(Sockets)
      BY <2>2, AppendProperties
    <2>5. /\ d \in Casts /\ d.running = c.running /\ d.list = Append(c.list, s) /\ d.at = c.at
          /\ d.failed = c.failed
      BY <1>2, <2>4 DEF Casts
    <2> QED BY <2>2, <2>3, <2>5 DEF Fits
  <1> QED BY <1>1, <1>2

LEMMA FitsWhenStarted ==
    ASSUME NEW list \in Seq(Sockets), list # <<>>, IsInjective(list), NEW away, NEW c,
           NEW g, g = [s \in Sockets |-> 0],
           c = [running |-> TRUE, list |-> list, at |-> 1, failed |-> {}, shared |-> TRUE]
    PROVE  /\ c \in Casts
           /\ ToSet(list) \ away \in SUBSET Sockets
           /\ Fits(c, ToSet(list) \ away, g, list, away)
  <1>1. /\ Len(list) \in Nat \ {0} /\ \A i \in 1 .. Len(list) : list[i] \in Sockets
        /\ ToSet(list) \subseteq Sockets
    BY LenProperties, EmptySeq, ElementOfSeq, ToSetTyped
  <1>2. SentUpTo(list, 1, ToSet(list) \ away, g)
    BY <1>1 DEF SentUpTo, SentBefore
  <1>3. c.running /\ c.list = list /\ c.at = 1 /\ c.failed = {} /\ c \in Casts
    BY DEF Casts
  <1> QED BY <1>1, <1>2, <1>3 DEF Fits

(* An awaited send has come back: one socket more has been sent to, or it  *)
(* has gone and nothing is owed to it.                                     *)
LEMMA SentToOneMore ==
    ASSUME NEW list \in Seq(Sockets), NEW place, NEW o, NEW away, o \cap away = {},
           NEW g \in [Sockets -> Nat], SentUpTo(list, place, o, g),
           NEW s, s = list[place],
           NEW h, SentTo(s, away, g, h)
    PROVE  s \in Sockets /\ SentBefore(place + 1, list, o, h)
  <1>1. /\ Len(list) \in Nat /\ place \in 1 .. Len(list) /\ DOMAIN list = 1 .. Len(list)
        /\ \A i \in 1 .. Len(list) : list[i] \in Sockets
    BY LenProperties, ElementOfSeq DEF SentUpTo
  <1>2. s \in Sockets /\ s \in ToSet(list) /\ g[s] = 0
    <2>1. ~(place < place)
      BY <1>1
    <2>2. g[s] = 0
      BY <1>1, <2>1 DEF SentUpTo, SentBefore
    <2> QED BY <1>1, <2>2 DEF ToSet
  <1>3. /\ \A t \in Sockets \ {s} : h[t] = g[t]
        /\ h[s] = IF s \in away THEN 0 ELSE 1
    BY <1>2 DEF SentTo
  <1>4. \A t \in Sockets \ ToSet(list) : h[t] = 0
    BY <1>2, <1>3 DEF SentUpTo, SentBefore
  <1>5. ASSUME NEW i \in 1 .. Len(list)
        PROVE  IF i < place + 1 THEN h[list[i]] <= 1 /\ (list[i] \in o => h[list[i]] = 1)
               ELSE h[list[i]] = 0
    <2>1. CASE i = place
      <3>1. list[i] \in o => h[list[i]] = 1
        BY <1>3, <2>1
      <3>2. h[list[i]] <= 1
        BY <1>3, <2>1
      <3> QED BY <1>1, <2>1, <3>1, <3>2
    <2>2. CASE i # place
      <3>1. list[i] # s /\ list[i] \in Sockets
        BY <1>1, <2>2 DEF SentUpTo, IsInjective
      <3>2. h[list[i]] = g[list[i]]
        BY <1>3, <3>1
      <3>3. IF i < place THEN g[list[i]] <= 1 /\ (list[i] \in o => g[list[i]] = 1)
            ELSE g[list[i]] = 0
        BY DEF SentUpTo, SentBefore
      <3>4. i < place + 1 <=> i < place
        BY <1>1, <2>2
      <3> QED BY <3>2, <3>3, <3>4
    <2> QED BY <2>1, <2>2
  <1> QED BY <1>2, <1>4, <1>5 DEF SentBefore

(* disconnect takes the sockets out, and no broadcast notices.             *)
LEMMA DisconnectKeeps ==
    ASSUME WsTypeOK, ListIsAlive, NEW ss, NEW casts \in [Broadcasts -> Casts], NEW g,
           \A b \in Broadcasts : Fits(casts[b], owed[b], g[b], members, gone),
           Disconnect(ss, casts)
    PROVE  /\ members' \in Seq(Sockets) /\ IsInjective(members')
           /\ ToSet(members') = ToSet(members) \ ss
           /\ cast' \in [Broadcasts -> Casts]
           /\ \A b \in Broadcasts : Fits(cast'[b], owed[b], g[b], members', gone)
  <1>1. CASE members = <<>> \/ ss = {}
    <2>1. members = <<>> => ToSet(members) = {}
      BY DEF ToSet
    <2> QED BY <1>1, <2>1 DEF Disconnect, WsTypeOK, ListIsAlive
  <1>2. CASE ~(members = <<>> \/ ss = {})
    <2>1. members' = Without(members, ss) /\ cast' = Unshare(casts)
      BY <1>2 DEF Disconnect
    <2>2. members \in Seq(Sockets) /\ IsInjective(members)
      BY DEF WsTypeOK, ListIsAlive
    <2>3. \A b \in Broadcasts : cast'[b] = [casts[b] EXCEPT !.shared = FALSE]
      BY <2>1 DEF Unshare
    <2>4. ASSUME NEW b \in Broadcasts
          PROVE  cast'[b] \in Casts /\ Fits(cast'[b], owed[b], g[b], members', gone)
      <3>1. PICK c \in Casts : c = casts[b]
        OBVIOUS
      <3>2. Fits(c, owed[b], g[b], members, gone)
        BY <3>1
      <3>3. /\ [c EXCEPT !.shared = FALSE] \in Casts
            /\ Fits([c EXCEPT !.shared = FALSE], owed[b], g[b], members', gone)
        BY <3>2, FitsWhenUnshared
      <3>4. cast'[b] = [c EXCEPT !.shared = FALSE]
        BY <2>3, <3>1
      <3> QED BY <3>3, <3>4
    <2>5. cast' = [b \in Broadcasts |-> cast'[b]]
      BY <2>1 DEF Unshare
    <2>6. cast' \in [Broadcasts -> Casts]
      BY <2>4, <2>5
    <2> QED BY <2>1, <2>2, <2>4, <2>6, WithoutProperties
  <1> QED BY <1>1, <1>2

(* What an awaited send does to the locals of a broadcast and to got.      *)
SendOf(c, away, g, s, h, failed) ==
    /\ s = c.list[c.at]
    /\ h = IF s \in away THEN g ELSE [g EXCEPT ![s] = @ + 1]
    /\ failed = IF s \in away THEN c.failed \cup {s} ELSE c.failed

OneFurther(c, failed) == [c EXCEPT !.at = @ + 1, !.failed = failed]

(* The broadcast goes on to the next place, or is at its end.              *)
LEMMA FitsWhenSent ==
    ASSUME NEW c \in Casts, NEW o, NEW g \in [Sockets -> Nat], NEW list, NEW away \in SUBSET Sockets,
           Fits(c, o, g, list, away), c.running,
           NEW s, NEW h, NEW failed, SendOf(c, away, g, s, h, failed)
    PROVE  /\ failed \in SUBSET away
           /\ h \in [Sockets -> Nat]
           /\ c.at < Len(c.list) => /\ OneFurther(c, failed) \in Casts
                                     /\ Fits(OneFurther(c, failed), o, h, list, away)
           /\ ~(c.at < Len(c.list)) => Idle \in Casts /\ Fits(Idle, o, h, list, away)
  <1>1. c.list \in Seq(Sockets) /\ c.at \in Nat /\ Len(c.list) \in Nat
    BY LenProperties DEF Casts
  <1>2. c # Idle
    <2>1. ~Idle.running
      BY DEF Idle
    <2> HIDE DEF Idle
    <2> QED BY <2>1
  <1>3. /\ o \cap away = {} /\ c.failed \subseteq away /\ SentUpTo(c.list, c.at, o, g)
        /\ c.shared => c.list = list
    BY <1>2 DEF Fits
  <1>4. s \in Sockets /\ h \in [Sockets -> Nat] /\ SentBefore(c.at + 1, c.list, o, h)
    <2>1. SentTo(s, away, g, h) /\ s = c.list[c.at]
      BY DEF SentTo, SendOf
    <2>2. s \in Sockets /\ SentBefore(c.at + 1, c.list, o, h)
      BY <1>1, <1>3, <2>1, SentToOneMore
    <2> QED BY <2>2 DEF SendOf
  <1>5. failed \in SUBSET away
    BY <1>3 DEF SendOf
  <1>6. IsInjective(c.list) /\ o \subseteq ToSet(c.list) /\ c.at \in 1 .. Len(c.list)
    BY <1>3 DEF SentUpTo
  <1>7. ASSUME c.at < Len(c.list), NEW d, d = OneFurther(c, failed)
        PROVE  d \in Casts /\ Fits(d, o, h, list, away)
    <2>1. /\ d.running = c.running /\ d.list = c.list /\ d.at = c.at + 1
          /\ d.failed = failed /\ d.shared = c.shared
      BY <1>7 DEF Casts, OneFurther
    <2>2. failed \in SUBSET Sockets /\ c.at + 1 \in Nat
      BY <1>1, <1>5
    <2>3. d \in Casts
      BY <1>7, <2>2 DEF Casts, OneFurther
    <2>4. c.at + 1 \in 1 .. Len(c.list)
      BY <1>1, <1>6, <1>7
    <2>5. SentUpTo(c.list, c.at + 1, o, h)
      BY <1>4, <1>6, <2>4 DEF SentUpTo
    <2> QED BY <1>3, <1>5, <2>1, <2>3, <2>5 DEF Fits
  <1>8. ASSUME ~(c.at < Len(c.list)) PROVE Idle \in Casts /\ Fits(Idle, o, h, list, away)
    <2>1. \A i \in 1 .. Len(c.list) : i < c.at + 1
      BY <1>1, <1>8
    <2>2. ASSUME NEW t \in Sockets PROVE h[t] <= 1 /\ (t \in o => h[t] = 1)
      <3>1. CASE t \in ToSet(c.list)
        <4>1. PICK i \in 1 .. Len(c.list) : c.list[i] = t
          BY <1>1, <3>1, LenProperties DEF ToSet
        <4> QED BY <1>4, <2>1, <4>1 DEF SentBefore
      <3>2. CASE t \notin ToSet(c.list)
        BY <1>4, <1>6, <3>2 DEF SentBefore
      <3> QED BY <3>1, <3>2
    <2>3. Idle.failed = {} /\ Idle \in Casts
      BY DEF Idle, Casts
    <2> QED BY <1>3, <2>2, <2>3 DEF Fits, AllReached
  <1> QED BY <1>4, <1>5, <1>7, <1>8

LEMMA AcceptKeeps == ASSUME WsIInv, NEW s \in Sockets, Accept(s) PROVE WsIInv'
  <1>1. /\ socket[s] = "new" /\ socket' = [socket EXCEPT ![s] = "accepting"]
        /\ members' = members /\ gone' = gone /\ cast' = cast /\ got' = got /\ owed' = owed
    BY DEF Accept
  <1>2. WsTypeOK'
    BY <1>1 DEF WsIInv, WsTypeOK
  <1>3. ListIsAlive'
    BY <1>1 DEF WsIInv, WsTypeOK, ListIsAlive
  <1>4. \A b \in Broadcasts : CastOf(b)'
    BY <1>1 DEF WsIInv, CastOf
  <1> QED BY <1>2, <1>3, <1>4 DEF WsIInv

LEMMA ConnectKeeps == ASSUME WsIInv, NEW s \in Sockets, Connect(s) PROVE WsIInv'
  <1>1. /\ socket[s] = "accepting" /\ socket' = [socket EXCEPT ![s] = "open"]
        /\ members' = Append(members, s) /\ gone' = gone /\ got' = got /\ owed' = owed
    BY DEF Connect
  <1>2. WsTypeOK /\ ListIsAlive /\ \A b \in Broadcasts : CastOf(b)
    BY DEF WsIInv
  <1>3. members \in Seq(Sockets) /\ s \notin ToSet(members)
    BY <1>1, <1>2 DEF WsTypeOK, ListIsAlive
  <1>4. /\ members' \in Seq(Sockets) /\ ToSet(members') = ToSet(members) \cup {s}
        /\ IsInjective(members')
    BY <1>1, <1>2, <1>3, ToSetAppend DEF ListIsAlive
  <1>5. /\ cast' = [b \in Broadcasts |-> cast'[b]]
        /\ \A b \in Broadcasts :
              cast'[b] = IF cast[b].shared THEN [cast[b] EXCEPT !.list = Append(@, s)] ELSE cast[b]
    BY DEF Connect
  <1>6. ASSUME NEW b \in Broadcasts PROVE cast'[b] \in Casts /\ CastOf(b)'
    <2>1. PICK c \in Casts : c = cast[b]
      BY <1>2 DEF WsTypeOK
    <2>2. cast'[b] = IF c.shared THEN [c EXCEPT !.list = Append(@, s)] ELSE c
      BY <1>5, <2>1
    <2>3. Fits(c, owed[b], got[b], members, gone)
      BY <1>2, <2>1 DEF CastOf
    <2>4. cast'[b] \in Casts /\ Fits(cast'[b], owed[b], got[b], Append(members, s), gone)
      BY <1>3, <2>2, <2>3, FitsWhenJoined
    <2> QED BY <1>1, <2>4 DEF CastOf
  <1>7. cast' \in [Broadcasts -> Casts]
    BY <1>5, <1>6
  <1>8. WsTypeOK'
    BY <1>1, <1>2, <1>4, <1>7 DEF WsTypeOK
  <1>9. ListIsAlive'
    BY <1>1, <1>2, <1>4 DEF WsTypeOK, ListIsAlive
  <1> QED BY <1>6, <1>8, <1>9 DEF WsIInv

LEMMA PeerLeavesKeeps == ASSUME WsIInv, NEW s \in Sockets, PeerLeaves(s) PROVE WsIInv'
  <1>1. /\ gone' = gone \cup {s} /\ owed' = [b \in Broadcasts |-> owed[b] \ {s}]
        /\ members' = members /\ socket' = socket /\ cast' = cast /\ got' = got
    BY DEF PeerLeaves
  <1>2. WsTypeOK /\ ListIsAlive /\ \A b \in Broadcasts : CastOf(b)
    BY DEF WsIInv
  <1>3. WsTypeOK'
    BY <1>1, <1>2 DEF WsTypeOK
  <1>4. ListIsAlive'
    BY <1>1, <1>2 DEF ListIsAlive
  <1>5. \A b \in Broadcasts : CastOf(b)'
    BY <1>1, <1>2, FitsWhenGone DEF CastOf
  <1> QED BY <1>3, <1>4, <1>5 DEF WsIInv

LEMMA ReceiveRaisesKeeps == ASSUME WsIInv, NEW s \in Sockets, ReceiveRaises(s) PROVE WsIInv'
  <1>1. /\ socket[s] = "open" /\ s \in gone /\ socket' = [socket EXCEPT ![s] = "closed"]
        /\ Disconnect({s}, cast) /\ gone' = gone /\ got' = got /\ owed' = owed
    BY DEF ReceiveRaises
  <1>2. WsTypeOK /\ ListIsAlive /\ \A b \in Broadcasts : CastOf(b)
    BY DEF WsIInv
  <1>3. /\ cast \in [Broadcasts -> Casts]
        /\ \A b \in Broadcasts : Fits(cast[b], owed[b], got[b], members, gone)
    BY <1>2 DEF WsTypeOK, CastOf
  <1>4. /\ members' \in Seq(Sockets) /\ IsInjective(members')
        /\ ToSet(members') = ToSet(members) \ {s}
        /\ cast' \in [Broadcasts -> Casts]
        /\ \A b \in Broadcasts : Fits(cast'[b], owed[b], got[b], members', gone)
    BY <1>1, <1>2, <1>3, DisconnectKeeps
  <1>5. WsTypeOK'
    BY <1>1, <1>2, <1>4 DEF WsTypeOK
  <1>6. ListIsAlive'
    <2>1. \A t \in ToSet(members') : t \in Sockets
      BY <1>4, ToSetTyped
    <2> QED BY <1>1, <1>2, <1>4, <2>1 DEF WsTypeOK, ListIsAlive
  <1>7. \A b \in Broadcasts : CastOf(b)'
    BY <1>1, <1>4 DEF CastOf
  <1> QED BY <1>5, <1>6, <1>7 DEF WsIInv

LEMMA StartBroadcastKeeps ==
    ASSUME WsIInv, NEW b \in Broadcasts, StartBroadcast(b) PROVE WsIInv'
  <1> DEFINE begun == [running |-> TRUE, list |-> members, at |-> 1, failed |-> {}, shared |-> TRUE]
             due == ToSet(members) \ gone
  <1>1. /\ members # <<>> /\ got[b] = [s \in Sockets |-> 0]
        /\ cast' = [cast EXCEPT ![b] = begun] /\ owed' = [owed EXCEPT ![b] = due]
        /\ members' = members /\ socket' = socket /\ gone' = gone /\ got' = got
    BY DEF StartBroadcast
  <1>2. WsTypeOK /\ ListIsAlive /\ \A c \in Broadcasts : CastOf(c)
    BY DEF WsIInv
  <1>3. members \in Seq(Sockets) /\ IsInjective(members)
    BY <1>2 DEF WsTypeOK, ListIsAlive
  <1>4. /\ begun \in Casts /\ due \in SUBSET Sockets
        /\ Fits(begun, due, got[b], members, gone)
    BY <1>1, <1>3, FitsWhenStarted
  <1> HIDE DEF begun, due
  <1>5. WsTypeOK'
    BY <1>1, <1>2, <1>4 DEF WsTypeOK
  <1>6. ListIsAlive'
    BY <1>1, <1>2 DEF ListIsAlive
  <1>7. \A c \in Broadcasts : CastOf(c)'
    <2>1. /\ cast'[b] = begun /\ owed'[b] = due
          /\ \A c \in Broadcasts \ {b} : cast'[c] = cast[c] /\ owed'[c] = owed[c]
      BY <1>1, <1>2 DEF WsTypeOK
    <2> QED BY <1>1, <1>2, <1>4, <2>1 DEF CastOf
  <1> QED BY <1>5, <1>6, <1>7 DEF WsIInv

LEMMA SendDoneKeeps == ASSUME WsIInv, NEW b \in Broadcasts, SendDone(b) PROVE WsIInv'
  <1>1. WsTypeOK /\ ListIsAlive /\ \A d \in Broadcasts : CastOf(d)
    BY DEF WsIInv
  <1>2. PICK c \in Casts : c = cast[b]
    BY <1>1 DEF WsTypeOK
  <1>3. PICK g \in [Sockets -> Nat] : g = got[b]
    BY <1>1 DEF WsTypeOK
  <1>4. PICK s : s = c.list[c.at]
    OBVIOUS
  <1>5. PICK failed : failed = IF s \in gone THEN c.failed \cup {s} ELSE c.failed
    OBVIOUS
  <1>6. PICK h : h = IF s \in gone THEN g ELSE [g EXCEPT ![s] = @ + 1]
    OBVIOUS
  <1>7. /\ c.running
        /\ got' = IF s \in gone THEN got ELSE [got EXCEPT ![b][s] = @ + 1]
        /\ IF c.at < Len(c.list)
           THEN cast' = [cast EXCEPT ![b].at = @ + 1, ![b].failed = failed] /\ members' = members
           ELSE Disconnect(failed, [cast EXCEPT ![b] = Idle])
        /\ socket' = socket /\ gone' = gone /\ owed' = owed
    BY <1>2, <1>4, <1>5 DEF SendDone
  <1>8. Fits(c, owed[b], g, members, gone) /\ gone \in SUBSET Sockets
    BY <1>1, <1>2, <1>3 DEF CastOf, WsTypeOK
  <1>9. /\ failed \in SUBSET gone
        /\ h \in [Sockets -> Nat]
        /\ c.at < Len(c.list) => /\ OneFurther(c, failed) \in Casts
                                  /\ Fits(OneFurther(c, failed), owed[b], h, members, gone)
        /\ ~(c.at < Len(c.list)) => Idle \in Casts /\ Fits(Idle, owed[b], h, members, gone)
    <2>1. SendOf(c, gone, g, s, h, failed)
      BY <1>4, <1>5, <1>6 DEF SendOf
    <2> QED BY <1>7, <1>8, <2>1, FitsWhenSent
  <1>10. /\ got' \in [Broadcasts -> [Sockets -> Nat]]
         /\ got'[b] = h
         /\ \A d \in Broadcasts \ {b} : got'[d] = got[d]
    <2>1. got \in [Broadcasts -> [Sockets -> Nat]]
      BY <1>1 DEF WsTypeOK
    <2>2. got' = [got EXCEPT ![b] = h]
      BY <1>3, <1>6, <1>7, <2>1
    <2> QED BY <1>9, <2>1, <2>2
  <1>11. PICK casts : /\ casts \in [Broadcasts -> Casts]
                      /\ \A d \in Broadcasts : Fits(casts[d], owed[d], got'[d], members, gone)
                      /\ \/ cast' = casts /\ members' = members
                         \/ Disconnect(failed, casts)
    <2>1. cast \in [Broadcasts -> Casts]
      BY <1>1 DEF WsTypeOK
    <2>2. ASSUME NEW d \in Broadcasts \ {b}
          PROVE  Fits(cast[d], owed[d], got'[d], members, gone)
      BY <1>1, <1>10 DEF CastOf
    <2>3. CASE c.at < Len(c.list)
      <3>1. PICK d : d = OneFurther(c, failed)
        OBVIOUS
      <3>2. d \in Casts /\ Fits(d, owed[b], h, members, gone)
        BY <1>9, <2>3, <3>1
      <3>3. cast' = [cast EXCEPT ![b] = d] /\ members' = members
        BY <1>2, <1>7, <2>1, <2>3, <3>1 DEF OneFurther
      <3>4. cast' \in [Broadcasts -> Casts] /\ cast'[b] = d
            /\ \A e \in Broadcasts \ {b} : cast'[e] = cast[e]
        BY <2>1, <3>2, <3>3
      <3>5. \A e \in Broadcasts : Fits(cast'[e], owed[e], got'[e], members, gone)
        BY <1>10, <2>2, <3>2, <3>4
      <3> QED BY <3>3, <3>4, <3>5
    <2>4. CASE ~(c.at < Len(c.list))
      <3>1. Idle \in Casts /\ Fits(Idle, owed[b], h, members, gone)
        BY <1>9, <2>4
      <3>2. PICK casts : casts = [cast EXCEPT ![b] = Idle]
        OBVIOUS
      <3> HIDE DEF Idle
      <3>3. casts \in [Broadcasts -> Casts] /\ casts[b] = Idle
            /\ \A e \in Broadcasts \ {b} : casts[e] = cast[e]
        BY <2>1, <3>1, <3>2
      <3>4. \A e \in Broadcasts : Fits(casts[e], owed[e], got'[e], members, gone)
        BY <1>10, <2>2, <3>1, <3>3
      <3>5. Disconnect(failed, casts)
        BY <1>7, <2>4, <3>2
      <3> QED BY <3>3, <3>4, <3>5
    <2> QED BY <2>3, <2>4
  <1>12. /\ members' \in Seq(Sockets) /\ IsInjective(members')
         /\ ToSet(members) \ gone \subseteq ToSet(members')
         /\ ToSet(members') \subseteq ToSet(members)
         /\ cast' \in [Broadcasts -> Casts]
         /\ \A d \in Broadcasts : Fits(cast'[d], owed[d], got'[d], members', gone)
    <2>1. CASE cast' = casts /\ members' = members
      BY <1>1, <1>11, <2>1 DEF WsTypeOK, ListIsAlive
    <2>2. CASE Disconnect(failed, casts)
      <3>1. /\ members' \in Seq(Sockets) /\ IsInjective(members')
            /\ ToSet(members') = ToSet(members) \ failed
            /\ cast' \in [Broadcasts -> Casts]
            /\ \A d \in Broadcasts : Fits(cast'[d], owed[d], got'[d], members', gone)
        BY <1>1, <1>11, <2>2, DisconnectKeeps
      <3> QED BY <1>9, <3>1
    <2> QED BY <1>11, <2>1, <2>2
  <1>13. WsTypeOK'
    BY <1>1, <1>7, <1>10, <1>12 DEF WsTypeOK
  <1>14. ListIsAlive'
    BY <1>1, <1>7, <1>12 DEF ListIsAlive
  <1>15. \A d \in Broadcasts : CastOf(d)'
    BY <1>7, <1>12 DEF CastOf
  <1> QED BY <1>13, <1>14, <1>15 DEF WsIInv

LEMMA WsInvariant == WsSpec => []WsIInv
  <1>1. WsInit => WsIInv
    BY WsStart
  <1>2. WsIInv /\ [WsNext]_wsVars => WsIInv'
    <2> SUFFICES ASSUME WsIInv, [WsNext]_wsVars PROVE WsIInv'
      OBVIOUS
    <2>1. ASSUME NEW s \in Sockets, Accept(s) \/ Connect(s) \/ PeerLeaves(s) \/ ReceiveRaises(s)
          PROVE  WsIInv'
      BY <2>1, AcceptKeeps, ConnectKeeps, PeerLeavesKeeps, ReceiveRaisesKeeps
    <2>2. ASSUME NEW b \in Broadcasts, StartBroadcast(b) \/ SendDone(b) PROVE WsIInv'
      BY <2>2, StartBroadcastKeeps, SendDoneKeeps
    <2>3. CASE UNCHANGED wsVars
      BY <2>3 DEF wsVars, WsIInv, WsTypeOK, ListIsAlive, CastOf
    <2> QED BY <2>1, <2>2, <2>3 DEF WsNext
  <1> QED BY <1>1, <1>2, PTL DEF WsSpec

(* Every broadcast reaches each connection that stays exactly once and     *)
(* nobody twice, and the list holds the live connections, once each:       *)
(* connect, disconnect and broadcast of ws.py, for any number of sockets   *)
(* and broadcasts, whatever comes and goes while a send is awaited.        *)
THEOREM EveryoneReached == WsSpec => []BroadcastsReach
  <1>1. WsIInv => BroadcastsReach
    <2> SUFFICES ASSUME WsIInv PROVE BroadcastsReach
      OBVIOUS
    <2>1. WsTypeOK /\ ListIsAlive /\ \A b \in Broadcasts : CastOf(b)
      BY DEF WsIInv
    <2>2. ASSUME NEW b \in Broadcasts, NEW s \in Sockets
          PROVE  got[b][s] <= 1 /\ (cast[b] = Idle /\ s \in owed[b] => got[b][s] = 1)
      <3>1. PICK c \in Casts : c = cast[b]
        BY <2>1 DEF WsTypeOK
      <3>2. Fits(c, owed[b], got[b], members, gone)
        BY <2>1, <3>1 DEF CastOf
      <3>3. CASE c = Idle /\ AllReached(owed[b], got[b])
        BY <3>1, <3>3 DEF AllReached
      <3>4. CASE c.running /\ SentBefore(c.at, c.list, owed[b], got[b])
        <4>1. ~Idle.running
          BY DEF Idle
        <4> HIDE DEF Idle
        <4>2. cast[b] # Idle
          BY <3>1, <3>4, <4>1
        <4>3. got[b][s] <= 1
          <5>1. c.list \in Seq(Sockets)
            BY DEF Casts
          <5>2. CASE s \in ToSet(c.list)
            <6>1. PICK i \in 1 .. Len(c.list) : c.list[i] = s
              BY <5>1, <5>2, LenProperties DEF ToSet
            <6> QED BY <3>4, <6>1 DEF SentBefore
          <5>3. CASE s \notin ToSet(c.list)
            BY <3>4, <5>3 DEF SentBefore
          <5> QED BY <5>2, <5>3
        <4> QED BY <4>2, <4>3
      <3> QED BY <3>2, <3>3, <3>4 DEF Fits, SentUpTo
    <2> QED BY <2>1, <2>2 DEF BroadcastsReach, ReachesAllOnce
  <1> QED BY <1>1, WsInvariant, PTL


-----------------------------------------------------------------------------
(* The event store.                                                        *)

EventRows == [id : EventIds, aggregate : Aggregates]

EventIInv ==
    /\ domain_events \in Seq(EventRows)
    /\ \A i, j \in DOMAIN domain_events : domain_events[i].id = domain_events[j].id => i = j

LEMMA EventInvariant == EventSpec => []EventIInv
  <1>1. EventInit => EventIInv
    BY DEF EventInit, EventIInv
  <1>2. EventIInv /\ [EventNext]_eventVars => EventIInv'
    <2> SUFFICES ASSUME EventIInv, [EventNext]_eventVars PROVE EventIInv'
      OBVIOUS
    <2>1. CASE UNCHANGED domain_events
      BY <2>1 DEF EventIInv
    <2>2. ASSUME NEW id \in EventIds, NEW aggregate \in Aggregates, AppendEvent(id, aggregate),
                 \A i \in DOMAIN domain_events : domain_events[i].id # id
          PROVE  EventIInv'
      <3> DEFINE row == [id |-> id, aggregate |-> aggregate]
                 k == Len(domain_events)
      <3>1. domain_events' = Append(domain_events, row) /\ row \in EventRows /\ row.id = id
        BY <2>2 DEF AppendEvent, EventRows
      <3>2. domain_events \in Seq(EventRows) /\ k \in Nat /\ DOMAIN domain_events = 1 .. k
        BY DEF EventIInv
      <3> HIDE DEF row, k
      <3>3. /\ domain_events' \in Seq(EventRows) /\ DOMAIN domain_events' = 1 .. k + 1
            /\ domain_events'[k + 1] = row
            /\ \A i \in 1 .. k : domain_events'[i] = domain_events[i]
        BY <3>1, <3>2 DEF k
      <3>4. \A i \in 1 .. k + 1 : i = k + 1 \/ i \in 1 .. k
        BY <3>2
      <3> QED BY <2>2, <3>1, <3>2, <3>3, <3>4 DEF EventIInv
    <2> QED BY <2>1, <2>2 DEF EventNext, AppendEvent, ReplayAggregate, eventVars
  <1> QED BY <1>1, <1>2, PTL DEF EventSpec

(* What a query goes through: the rows of an aggregate among the first n   *)
(* rows of a table, for every n up to k.                                   *)
Selects(of, table, aggregate, k) ==
    of = [n \in 0 .. k |->
             IF n = 0 THEN <<>>
             ELSE IF table[n].aggregate = aggregate THEN Append(of[n - 1], table[n])
             ELSE of[n - 1]]

LEMMA SelectionExists ==
    ASSUME NEW table, NEW aggregate, NEW k \in Nat
    PROVE  \E of : Selects(of, table, aggregate, k)
  <1> DEFINE S == {n \in Nat : \E of : Selects(of, table, aggregate, n)}
  <1>1. 0 \in S
    <2> DEFINE of == [n \in 0 .. 0 |-> <<>>]
    <2>1. of = [n \in 0 .. 0 |->
                   IF n = 0 THEN <<>>
                   ELSE IF table[n].aggregate = aggregate THEN Append(of[n - 1], table[n])
                   ELSE of[n - 1]]
      OBVIOUS
    <2> HIDE DEF of
    <2> QED BY <2>1 DEF Selects
  <1>2. ASSUME NEW n \in S PROVE n + 1 \in S
    <2>1. PICK of : Selects(of, table, aggregate, n)
      BY <1>2
    <2> DEFINE last == IF table[n + 1].aggregate = aggregate
                       THEN Append(of[n], table[n + 1]) ELSE of[n]
               more == [i \in 0 .. n + 1 |-> IF i = n + 1 THEN last ELSE of[i]]
    <2>2. ASSUME NEW i \in 0 .. n
          PROVE  of[i] = IF i = 0 THEN <<>>
                         ELSE IF table[i].aggregate = aggregate
                         THEN Append(of[i - 1], table[i]) ELSE of[i - 1]
      BY <2>1 DEF Selects
    <2>3. ASSUME NEW i \in 0 .. n + 1
          PROVE  more[i] = IF i = 0 THEN <<>>
                           ELSE IF table[i].aggregate = aggregate
                           THEN Append(more[i - 1], table[i]) ELSE more[i - 1]
      <3>1. CASE i = 0
        BY <2>2, <3>1
      <3>2. CASE i # 0 /\ i # n + 1
        <4>1. i \in 0 .. n /\ i - 1 \in 0 .. n + 1 /\ i - 1 # n + 1
          BY <3>2
        <4>2. more[i] = of[i] /\ more[i - 1] = of[i - 1]
          BY <3>2, <4>1
        <4> HIDE DEF more
        <4> QED BY <2>2, <3>2, <4>1, <4>2
      <3>3. CASE i = n + 1
        <4>1. i # 0 /\ i - 1 = n /\ n \in 0 .. n + 1 /\ n # n + 1
          BY <3>3
        <4>2. more[i] = last /\ more[i - 1] = of[n]
          BY <3>3, <4>1
        <4> HIDE DEF more
        <4> QED BY <3>3, <4>1, <4>2
      <3> QED BY <3>1, <3>2, <3>3
    <2>4. more = [i \in 0 .. n + 1 |-> more[i]]
      OBVIOUS
    <2> HIDE DEF more
    <2>5. Selects(more, table, aggregate, n + 1)
      BY <2>3, <2>4, Zenon DEF Selects
    <2> QED BY <2>5
  <1> HIDE DEF S
  <1>3. S = Nat
    BY <1>1, <1>2, ByNumber DEF S
  <1> QED BY <1>3 DEF S

(* The events of an aggregate are rows of the table, none of them twice.   *)
LEMMA EventsOfAggregate ==
    ASSUME EventIInv, NEW aggregate
    PROVE  OfAggregate(aggregate) \in Seq(EventRows) /\ IsInjective(OfAggregate(aggregate))
  <1> DEFINE k == Len(domain_events)
             of == CHOOSE f : Selects(f, domain_events, aggregate, k)
  <1>1. /\ k \in Nat /\ DOMAIN domain_events = 1 .. k
        /\ \A i \in 1 .. k : domain_events[i] \in EventRows
        /\ \A i, j \in 1 .. k : domain_events[i] = domain_events[j] => i = j
    BY DEF EventIInv
  <1>2. OfAggregate(aggregate) = of[k]
    BY Zenon DEF OfAggregate, Selects
  <1>3. Selects(of, domain_events, aggregate, k)
    BY <1>1, SelectionExists, Zenon
  <1> HIDE DEF of, k
  <1>4. ASSUME NEW n \in 0 .. k
        PROVE  of[n] = IF n = 0 THEN <<>>
                       ELSE IF domain_events[n].aggregate = aggregate
                       THEN Append(of[n - 1], domain_events[n]) ELSE of[n - 1]
    BY <1>3 DEF Selects
  <1> DEFINE Whole(rows, n) ==
                 /\ rows \in Seq(EventRows) /\ IsInjective(rows)
                 /\ \A i \in DOMAIN rows : \E j \in 1 .. n : rows[i] = domain_events[j]
             S == {n \in Nat : n \in 0 .. k => Whole(of[n], n)}
  <1>5. 0 \in S
    <2>1. of[0] = <<>>
      BY <1>1, <1>4
    <2>2. <<>> \in Seq(EventRows) /\ DOMAIN <<>> = {}
      BY EmptySeq
    <2> QED BY <2>1, <2>2 DEF IsInjective
  <1>6. ASSUME NEW n \in S PROVE n + 1 \in S
    <2> SUFFICES ASSUME n + 1 \in 0 .. k PROVE Whole(of[n + 1], n + 1)
      OBVIOUS
    <2>1. n \in Nat /\ n \in 0 .. k /\ n + 1 \in 1 .. k /\ n + 1 # 0 /\ n + 1 - 1 = n
      BY <1>1
    <2>2. Whole(of[n], n)
      BY <1>6, <2>1
    <2>3. of[n + 1] = IF domain_events[n + 1].aggregate = aggregate
                      THEN Append(of[n], domain_events[n + 1]) ELSE of[n]
      BY <1>4, <2>1
    <2>4. \A j \in 1 .. n : j \in 1 .. n + 1 /\ j \in 1 .. k /\ j # n + 1
      BY <1>1, <2>1
    <2>5. CASE of[n + 1] = of[n]
      BY <2>2, <2>4, <2>5
    <2>6. CASE of[n + 1] = Append(of[n], domain_events[n + 1])
      <3> DEFINE rows == of[n]
                 row == domain_events[n + 1]
                 m == Len(rows)
                 more == Append(rows, row)
      <3>1. rows \in Seq(EventRows) /\ row \in EventRows
        BY <1>1, <2>1, <2>2
      <3>2. /\ more \in Seq(EventRows) /\ m \in Nat /\ DOMAIN rows = 1 .. m
            /\ DOMAIN more = 1 .. m + 1 /\ more[m + 1] = row
            /\ \A i \in 1 .. m : more[i] = rows[i]
        BY <3>1
      <3>3. \A i \in 1 .. m : rows[i] # row /\ \E j \in 1 .. n : rows[i] = domain_events[j]
        BY <1>1, <2>1, <2>2, <2>4, <3>2
      <3>4. \A i, j \in 1 .. m : rows[i] = rows[j] => i = j
        BY <2>2, <3>2 DEF IsInjective
      <3>5. of[n + 1] = more
        BY <2>6
      <3>6. \A i \in 1 .. m + 1 : i = m + 1 \/ i \in 1 .. m
        BY <3>2
      <3>7. n + 1 \in 1 .. n + 1
        BY <2>1
      <3> HIDE DEF rows, m, more
      <3>8. IsInjective(more)
        BY <3>2, <3>3, <3>4, <3>6 DEF IsInjective
      <3>9. \A i \in 1 .. m + 1 : \E j \in 1 .. n + 1 : more[i] = domain_events[j]
        BY <2>4, <3>2, <3>3, <3>6, <3>7
      <3> QED BY <3>2, <3>5, <3>8, <3>9
    <2> QED BY <2>3, <2>5, <2>6
  <1> HIDE DEF S
  <1>7. S = Nat
    BY <1>5, <1>6, ByNumber DEF S
  <1> QED BY <1>1, <1>2, <1>7 DEF S

(* get_events and replay give the beginning of what an aggregate has       *)
(* appended, without repetitions, and leave out only what is beyond the    *)
(* limit, for any number of events, any aggregates and any limit.          *)
THEOREM ReplaysFromTheStart == EventSpec => ReplayIsPrefix
  <1> DEFINE Right ==
        replayed' # replayed =>
            LET all == OfAggregate(replayed'.aggregate)
            IN  /\ IsPrefix(replayed'.events, all)
                /\ IsInjective(replayed'.events)
                /\ replayed'.events # all => Len(replayed'.events) = Limit
  <1>1. EventIInv /\ [EventNext]_eventVars => [Right]_eventVars
    <2> SUFFICES ASSUME EventIInv, EventNext, replayed' # replayed PROVE Right
      BY DEF eventVars
    <2>1. PICK aggregate \in Aggregates : ReplayAggregate(aggregate)
      BY DEF EventNext, AppendEvent
    <2> DEFINE all == OfAggregate(aggregate)
               m == IF Len(all) < Limit THEN Len(all) ELSE Limit
               some == SubSeq(all, 1, m)
    <2>2. replayed'.aggregate = aggregate /\ replayed'.events = some
      BY <2>1 DEF ReplayAggregate, GetEvents
    <2>3. all \in Seq(EventRows) /\ IsInjective(all)
      BY EventsOfAggregate
    <2> HIDE DEF all, some, m
    <2>4. Len(all) \in Nat /\ DOMAIN all = 1 .. Len(all) /\ m \in Nat /\ m <= Len(all)
      BY <2>3, LenProperties, LimitAssumption DEF m
    <2>5. \A i \in 1 .. m : i \in 1 .. Len(all)
      BY <2>4
    <2>6. /\ some \in Seq(EventRows) /\ Len(some) = m
          /\ \A i \in 1 .. m : some[i] = all[i]
      <3>1. \A i \in 1 .. m : all[i] \in EventRows
        BY <2>3, <2>5, ElementOfSeq
      <3>2. /\ some \in Seq(EventRows) /\ Len(some) = IF 1 <= m THEN m - 1 + 1 ELSE 0
            /\ \A i \in 1 .. m - 1 + 1 : some[i] = all[1 + i - 1]
        BY <2>4, <3>1, SubSeqProperties DEF some
      <3> QED BY <2>4, <3>2
    <2>7. IsInjective(some)
      <3>1. DOMAIN some = 1 .. m
        BY <2>6, LenProperties
      <3> QED BY <2>3, <2>4, <2>5, <2>6, <3>1 DEF IsInjective
    <2>8. SubSeq(some, 1, m) = some
      BY <2>6, SubSeqFull
    <2>9. some # all => m = Limit
      <3>1. m = Len(all) => some = all
        BY <2>3, SubSeqFull DEF some
      <3>2. m = Len(all) \/ m = Limit
        BY DEF m
      <3> QED BY <3>1, <3>2
    <2>10. IsPrefix(some, all)
      BY <2>4, <2>6, <2>8 DEF IsPrefix, some
    <2> QED BY <2>2, <2>6, <2>7, <2>9, <2>10 DEF all
  <1> HIDE DEF Right
  <1>2. EventSpec => [][Right]_eventVars
    BY <1>1, EventInvariant, PTL DEF EventSpec
  <1> QED BY <1>2 DEF Right, ReplayIsPrefix


-----------------------------------------------------------------------------
(* All of them in one process.                                             *)

(* Whichever part takes a step, it is a step or a stutter of each of them. *)
LEMMA PlatformStep ==
    ASSUME [PlatformNext]_platformVars
    PROVE  /\ [LoadNext]_loadVars /\ [LimiterNext]_limiterVars /\ [CacheNext]_cacheVars
           /\ [TaskNext]_taskVars /\ [WsNext]_wsVars /\ [EventNext]_eventVars
           /\ [MigrationNext]_schemaVars
  <1>1. CASE Hands
    BY <1>1 DEF Hands, limiterVars, cacheVars
  <1>2. CASE Limiter
    <2>1. [CacheNext]_cacheVars
      <3>1. CASE SecondPasses
        BY <1>2, <3>1 DEF Limiter, SecondPasses, CacheNext, TimePasses
      <3>2. CASE \E ip \in ClientIps : Consume(ip) \/ StartCounting(ip)
        BY <1>2, <3>2 DEF Limiter, Consume, StartCounting, cacheVars
      <3> QED BY <1>2, <3>1, <3>2 DEF Limiter, LimiterNext
    <2> QED BY <1>2, <2>1 DEF Limiter
  <1>3. CASE Cache
    <2>1. [LimiterNext]_limiterVars
      <3>1. CASE TimePasses
        BY <1>3, <3>1 DEF Cache, TimePasses, LimiterNext, SecondPasses
      <3>2. CASE /\ ~TimePasses /\ CacheNext
        <4>1. now' = now
          BY <3>2 DEF CacheNext, Length, GetItem, HasKey, DelItem, SetItem
        <4> QED BY <1>3, <4>1 DEF Cache, limiterVars
      <3> QED BY <1>3, <3>1, <3>2 DEF Cache
    <2> QED BY <1>3, <2>1 DEF Cache
  <1>4. CASE Queue
    BY <1>4 DEF Queue, limiterVars, cacheVars
  <1>5. CASE Connections
    BY <1>5 DEF Connections, limiterVars, cacheVars
  <1>6. CASE Events
    BY <1>6 DEF Events, limiterVars, cacheVars
  <1>7. CASE Startup
    BY <1>7 DEF Startup, limiterVars, cacheVars
  <1>8. CASE UNCHANGED platformVars
    BY <1>8 DEF platformVars
  <1> QED BY <1>1, <1>2, <1>3, <1>4, <1>5, <1>6, <1>7, <1>8 DEF PlatformNext

(* The run over the parts of the process is a behaviour of each of them:   *)
(* what is proved of a part holds in it.                                   *)
THEOREM PlatformIsItsParts ==
    PlatformSpec => /\ LoadSpec /\ LimiterSpec /\ CacheSpec /\ TaskSpec
                    /\ WsSpec /\ EventSpec /\ MigrationSpec
  <1>1. PlatformInit => /\ LoadInit /\ LimiterInit /\ CacheInit /\ TaskInit
                        /\ WsInit /\ EventInit /\ MigrationInit
    BY DEF PlatformInit
  <1>2. [PlatformNext]_platformVars =>
            /\ [LoadNext]_loadVars /\ [LimiterNext]_limiterVars /\ [CacheNext]_cacheVars
            /\ [TaskNext]_taskVars /\ [WsNext]_wsVars /\ [EventNext]_eventVars
            /\ [MigrationNext]_schemaVars
    BY PlatformStep
  <1> QED BY <1>1, <1>2, PTL DEF PlatformSpec, LoadSpec, LimiterSpec, CacheSpec, TaskSpec,
             WsSpec, EventSpec, MigrationSpec

(* The requests, the buckets, the cache and the tasks are always in states *)
(* they can be in, for any number of clients, addresses, keys and tasks:   *)
(* the handlers, middleware and executors of the API process.              *)
THEOREM PlatformTypesCorrect == PlatformSpec => []PlatformTypeOK
  <1>1. LoadSpec => []ServiceTypeOK
    BY LoadIsService, LiveHandSound, PTL
  <1> QED BY <1>1, PlatformIsItsParts, BucketsCorrect, NeverBeyondSize, TasksTypeCorrect, PTL
          DEF PlatformTypeOK
===============================================================================
